---- MODULE Spec2Model ----
(***************************************************************************)
(* Model of the sample-app HTTP service (main.go): the three request       *)
(* handlers healthHandler, workHandler and metricsHandler, the work        *)
(* simulator simulateWork, and the telemetry they emit (spans, the         *)
(* http_requests_total counter, the http_request_duration_seconds          *)
(* histogram).  Each connection runs one handler at a time, statement by   *)
(* statement; connections interleave freely.                               *)
(***************************************************************************)
EXTENDS Integers, Sequences, FiniteSets, TLC

\* ------------------------------------------------------------------------
\* Bounds of the model
\* ------------------------------------------------------------------------

\* total number of requests the server accepts in one behaviour
MaxRequests == 2

\* rand.Float64() is modelled as k / 2^FracBits, k in 0 .. 2^FracBits - 1
FracBits == 15

\* the connections (goroutines) that can be serving a request at once
Conns == {1, 2}

\* ------------------------------------------------------------------------
\* Program constants
\* ------------------------------------------------------------------------

StatusOK == 200
StatusInternalServerError == 500

\* time.Millisecond, in nanoseconds (time.Duration is a nanosecond count)
Millisecond == 1000000

\* rand.Intn(500) in simulateWork
WorkMaxMs == 500
\* rand.Intn(10) in simulateWork
WorkErrorOdds == 10
\* rand.Intn(20) in workHandler
HttpErrorOdds == 20
\* rand.Intn(100) for user.id
UserIdRange == 100
\* rand.Intn(10000) for request.id
RequestIdRange == 10000
\* cpuUsage := rand.Float64() * 100
CpuScale == 100
\* memoryUsage := rand.Float64() * 1024 * 1024 * 1024
Kibi == 1024

Endpoints == {"/health", "/work", "/metrics"}
Methods == {"GET", "POST", "DELETE"}
SpanNames == {"health_check", "do_work", "nested_operation", "metrics"}

\* ------------------------------------------------------------------------
\* Random sources
\* ------------------------------------------------------------------------

RECURSIVE Pow2(_)
Pow2(n) == IF n = 0 THEN 1 ELSE 2 * Pow2(n - 1)

\* denominator of the fixed-point rendering of a float64 fraction
FloatDen == Pow2(FracBits)

\* rand.Intn(n): every value of [0, n)
Intn(n) == 0 .. (n - 1)

\* the draws of rand.Intn(n) that the model stores and therefore samples:
\* both ends of the range
IntnSample(n) == {0, n - 1}

\* rand.Float64(): the numerators k of k / FloatDen, sampled at both ends
\* of [0, 1) and in the middle
Float64Sample == {0, FloatDen \div 2, FloatDen - 1}

\* rand.Float64() sampled at both ends of [0, 1) only
Float64Ends == {0, FloatDen - 1}

\* the draws of rand.Intn(100) and rand.Intn(10000) behind user.id and
\* request.id, sampled together at both ends of their ranges
IdDrawSample == {<<0, 0>>, <<UserIdRange - 1, RequestIdRange - 1>>}

\* a float64 value whole + frac / FloatDen, 0 <= frac < FloatDen
Float(whole, frac) == [whole |-> whole, frac |-> frac]

\* the draw k of rand.Float64() as a value in [0, 1)
Float64(k) == Float(0, k)

\* x * c for a non-negative integer factor c
FloatMul(x, c) ==
    Float(x.whole * c + (x.frac * c) \div FloatDen, (x.frac * c) % FloatDen)

\* fmt's %.2f: the value rounded to hundredths, ties to even, as
\* [whole, cents]
Fmt2f(x) ==
    LET scaled == x.frac * 100
        q == scaled \div FloatDen
        rem == scaled % FloatDen
        up == \/ 2 * rem > FloatDen
              \/ 2 * rem = FloatDen /\ q % 2 = 1
        cents == IF up THEN q + 1 ELSE q
    IN  IF cents = 100
        THEN [whole |-> x.whole + 1, cents |-> 0]
        ELSE [whole |-> x.whole, cents |-> cents]

\* the text %.2f prints
Fmt2fText(x) ==
    LET p == Fmt2f(x)
    IN  ToString(p.whole) \o "." \o
        (IF p.cents < 10 THEN "0" ELSE "") \o ToString(p.cents)

\* time.Duration(n) * time.Millisecond
DurationOfMs(n) == n * Millisecond

\* Duration.Milliseconds()
Milliseconds(d) == d \div Millisecond

\* ------------------------------------------------------------------------
\* Attributes, spans, response writer
\* ------------------------------------------------------------------------

\* attribute.String / Int / Bool / Float64: a key with a typed value
AttrString(k, v) == [key |-> k, type |-> "STRING", s |-> v, i |-> 0, b |-> FALSE, f |-> Float(0, 0)]
AttrInt(k, v) == [key |-> k, type |-> "INT64", s |-> "", i |-> v, b |-> FALSE, f |-> Float(0, 0)]
AttrBool(k, v) == [key |-> k, type |-> "BOOL", s |-> "", i |-> 0, b |-> v, f |-> Float(0, 0)]
AttrFloat64(k, v) == [key |-> k, type |-> "FLOAT64", s |-> "", i |-> 0, b |-> FALSE, f |-> v]

NoSpan == [state |-> "none", ends |-> 0, parent |-> "", attrs |-> {}]

\* tracer.Start(ctx, name): a new recording span whose parent is the span
\* carried by ctx
StartSpan(sp, name, parent) ==
    [sp EXCEPT ![name] = [state |-> "open", ends |-> 0, parent |-> parent, attrs |-> {}]]

\* span.SetAttributes(kvs...): later values replace earlier ones of the same
\* key; a span that is not recording ignores the call
SetAttributes(sp, name, kvs) ==
    IF sp[name].state # "open" THEN sp
    ELSE [sp EXCEPT ![name].attrs =
             {a \in @ : \A kv \in kvs : kv.key # a.key} \cup kvs]

\* span.End()
EndSpan(sp, name) ==
    [sp EXCEPT ![name].state = "ended", ![name].ends = @ + 1]

\* the http.ResponseWriter of one request before the handler has touched it
NewResponse ==
    [code |-> 0, body |-> "", contentType |-> "", sentContentType |-> "",
     headerCalls |-> 0, writes |-> 0]

\* w.Header().Set("Content-Type", v)
SetContentType(w, v) == [w EXCEPT !.contentType = v]

\* w.WriteHeader(code): the first call fixes the status and the headers sent
WriteHeader(w, code) ==
    IF w.code # 0 THEN [w EXCEPT !.headerCalls = @ + 1]
    ELSE [w EXCEPT !.code = code, !.sentContentType = w.contentType,
                   !.headerCalls = @ + 1]

\* w.Write(b): writes the header with 200 first when none was written
Write(w, b) ==
    LET h == IF w.code = 0
             THEN [w EXCEPT !.code = StatusOK, !.sentContentType = w.contentType]
             ELSE w
    IN  [h EXCEPT !.body = @ \o b, !.writes = @ + 1]

\* ------------------------------------------------------------------------
\* State
\* ------------------------------------------------------------------------

VARIABLES
    pc,              \* pc[c]: the statement connection c executes next
    request,         \* request[c]: endpoint and method of the request on c
    resp,            \* resp[c]: the response writer of that request
    spans,           \* spans[c]: the spans of that request, by name
    locals,          \* locals[c]: the handler's local variables
    draws,           \* draws[c]: the random draws the request received
    emitted,         \* emitted[c]: counter adds / histogram records of the request
    requestCounter,  \* http_requests_total, aggregated by endpoint
    requestDuration, \* http_request_duration_seconds observation count, by endpoint
    accepted,        \* number of requests accepted so far
    tally,           \* completed /work responses, counted as TestWorkHandler counts
    proc,            \* the process: main's position, PORT, port, mux, otel globals, exit code
    handles,         \* the package variables tracer, meter, requestCounter, requestDuration
    script,          \* the run of deploy.sh or create-secret.sh: position, inputs, commands
    cluster          \* the Kubernetes cluster the scripts talk to: secret, manifests

vars == <<pc, request, resp, spans, locals, draws, emitted,
          requestCounter, requestDuration, accepted, tally, proc, handles,
          script, cluster>>

\* the package-level telemetry handles
HandleNames == {"tracer", "meter", "requestCounter", "requestDuration"}

\* the globals initTelemetry installs in the otel package
OtelGlobals == {"TracerProvider", "TextMapPropagator", "MeterProvider"}

\* the port main falls back to when PORT is empty
DefaultPort == "8080"

\* the values os.Getenv("PORT") can return: "" when unset or empty
PortEnv == {"", "9090"}

\* the process as main leaves it once the listener is up
Listening(env) ==
    [pc |-> "serving", env |-> env,
     port |-> IF env = "" THEN DefaultPort ELSE env,
     registered |-> Endpoints, globals |-> OtelGlobals, err |-> "", exit |-> -1]

\* the request slot of a connection that has served nothing yet
NoRequest ==
    [endpoint |-> "", method |-> "", cancelled |-> FALSE, cancelledAt |-> ""]

NoLocals ==
    [status |-> "", span |-> "", workDuration |-> -1, slept |-> -1, logged |-> 0,
     cpuUsage |-> Float(0, 0), memoryUsage |-> Float(0, 0)]

NoDraws ==
    [userId |-> -1, requestId |-> -1, workMs |-> -1, workErr |-> -1,
     httpErr |-> -1, cpu |-> -1, mem |-> -1]

NoEmitted == [adds |-> <<>>, records |-> <<>>]

\* no script is being run
NoScript ==
    [name |-> "", pc |-> "", args |-> "", skip |-> FALSE, createSecret |-> "",
     reply |-> "", key |-> "", prompts |-> <<>>, cmds |-> <<>>, err |-> "",
     exit |-> -1]

\* a cluster nothing was done to
NoCluster == [secret |-> "absent", initial |-> "absent", applied |-> {}]

\* no connection has served anything, no instrument has been touched
NothingServed ==
    /\ pc = [c \in Conns |-> "idle"]
    /\ request = [c \in Conns |-> NoRequest]
    /\ resp = [c \in Conns |-> NewResponse]
    /\ spans = [c \in Conns |-> [n \in SpanNames |-> NoSpan]]
    /\ locals = [c \in Conns |-> NoLocals]
    /\ draws = [c \in Conns |-> NoDraws]
    /\ emitted = [c \in Conns |-> NoEmitted]
    /\ requestCounter = [e \in Endpoints |-> 0]
    /\ requestDuration = [e \in Endpoints |-> 0]
    /\ accepted = 0
    /\ tally = [total |-> 0, successCount |-> 0, errorCount |-> 0]

\* the server is up: main has initialised telemetry, registered the
\* handlers and is serving on the default port
Init ==
    /\ NothingServed
    /\ proc = Listening("")
    /\ handles = [h \in HandleNames |-> "set"]
    /\ script = NoScript
    /\ cluster = NoCluster

\* ------------------------------------------------------------------------
\* Telemetry instruments
\* ------------------------------------------------------------------------

\* requestCounter.Add(ctx, n, method, endpoint, status) by connection c
CounterAdd(c, n, method, endpoint, status) ==
    /\ handles.requestCounter # "nil"
    /\ emitted' = [emitted EXCEPT ![c].adds =
           Append(@, [value |-> n, method |-> method, endpoint |-> endpoint,
                      status |-> status])]
    /\ requestCounter' = [requestCounter EXCEPT ![endpoint] = @ + n]
    /\ UNCHANGED requestDuration

\* requestDuration.Record(ctx, duration, method, endpoint) by connection c
HistogramRecord(c, method, endpoint) ==
    /\ handles.requestDuration # "nil"
    /\ emitted' = [emitted EXCEPT ![c].records =
           Append(@, [method |-> method, endpoint |-> endpoint])]
    /\ requestDuration' = [requestDuration EXCEPT ![endpoint] = @ + 1]
    /\ UNCHANGED requestCounter

\* ------------------------------------------------------------------------
\* Dispatch: the mux hands a request to the handler registered for its path
\* ------------------------------------------------------------------------

EntryPoint(endpoint) ==
    CASE endpoint = "/health" -> "health_Start"
      [] endpoint = "/work" -> "work_Start"
      [] endpoint = "/metrics" -> "metrics_Start"

\* a server that handles one request at a time
Serve_Serialized(c) ==
    /\ proc.pc = "serving"
    /\ \A d \in Conns : pc[d] \in {"idle", "done"}
    /\ accepted < MaxRequests
    /\ \E e \in proc.registered, m \in Methods :
          /\ request' = [request EXCEPT ![c] =
                [endpoint |-> e, method |-> m, cancelled |-> FALSE,
                 cancelledAt |-> ""]]
          /\ pc' = [pc EXCEPT ![c] = EntryPoint(e)]
    /\ resp' = [resp EXCEPT ![c] = NewResponse]
    /\ spans' = [spans EXCEPT ![c] = [n \in SpanNames |-> NoSpan]]
    /\ locals' = [locals EXCEPT ![c] = NoLocals]
    /\ draws' = [draws EXCEPT ![c] = NoDraws]
    /\ emitted' = [emitted EXCEPT ![c] = NoEmitted]
    /\ accepted' = accepted + 1
    /\ UNCHANGED <<proc, handles, requestCounter, requestDuration, tally,
                   script, cluster>>

\* the server accepts a request on connection c and calls the handler
\* registered for its path
Serve(c) ==
    /\ proc.pc = "serving"
    /\ pc[c] \in {"idle", "done"}
    /\ accepted < MaxRequests
    /\ \E e \in proc.registered, m \in Methods :
          /\ request' = [request EXCEPT ![c] =
                [endpoint |-> e, method |-> m, cancelled |-> FALSE,
                 cancelledAt |-> ""]]
          /\ pc' = [pc EXCEPT ![c] = EntryPoint(e)]
    /\ resp' = [resp EXCEPT ![c] = NewResponse]
    /\ spans' = [spans EXCEPT ![c] = [n \in SpanNames |-> NoSpan]]
    /\ locals' = [locals EXCEPT ![c] = NoLocals]
    /\ draws' = [draws EXCEPT ![c] = NoDraws]
    /\ emitted' = [emitted EXCEPT ![c] = NoEmitted]
    /\ accepted' = accepted + 1
    /\ UNCHANGED <<proc, handles, requestCounter, requestDuration, tally,
                   script, cluster>>

\* ------------------------------------------------------------------------
\* healthHandler
\* ------------------------------------------------------------------------

\* ctx, span := tracer.Start(r.Context(), "health_check"); defer span.End()
health_Start(c) ==
    /\ pc[c] = "health_Start"
    /\ handles.tracer # "nil"
    /\ spans' = [spans EXCEPT ![c] = StartSpan(@, "health_check", "")]
    /\ pc' = [pc EXCEPT ![c] = "health_Add"]
    /\ UNCHANGED <<proc, handles, request, resp, locals, draws, emitted, requestCounter,
                   requestDuration, accepted, tally,
                   script, cluster>>

\* requestCounter.Add(ctx, 1, method, "/health", "200")
health_Add(c) ==
    /\ pc[c] = "health_Add"
    /\ CounterAdd(c, 1, request[c].method, "/health", "200")
    /\ pc' = [pc EXCEPT ![c] = "health_WriteHeader"]
    /\ UNCHANGED <<proc, handles, request, resp, spans, locals, draws, accepted, tally,
                   script, cluster>>

\* w.WriteHeader(http.StatusOK)
health_WriteHeader(c) ==
    /\ pc[c] = "health_WriteHeader"
    /\ resp' = [resp EXCEPT ![c] = WriteHeader(@, StatusOK)]
    /\ pc' = [pc EXCEPT ![c] = "health_Write"]
    /\ UNCHANGED <<proc, handles, request, spans, locals, draws, emitted, requestCounter,
                   requestDuration, accepted, tally,
                   script, cluster>>

\* healthHandler writing its body with a trailing newline
health_Write_Newline(c) ==
    /\ pc[c] = "health_Write"
    /\ resp' = [resp EXCEPT ![c] = Write(@, "OK\n")]
    /\ pc' = [pc EXCEPT ![c] = "health_Record"]
    /\ UNCHANGED <<proc, handles, request, spans, locals, draws, emitted, requestCounter,
                   requestDuration, accepted, tally,
                   script, cluster>>

\* w.Write([]byte("OK"))
health_Write(c) ==
    /\ pc[c] = "health_Write"
    /\ resp' = [resp EXCEPT ![c] = Write(@, "OK")]
    /\ pc' = [pc EXCEPT ![c] = "health_Record"]
    /\ UNCHANGED <<proc, handles, request, spans, locals, draws, emitted, requestCounter,
                   requestDuration, accepted, tally,
                   script, cluster>>

\* requestDuration.Record(ctx, duration, method, "/health")
health_Record(c) ==
    /\ pc[c] = "health_Record"
    /\ HistogramRecord(c, request[c].method, "/health")
    /\ pc' = [pc EXCEPT ![c] = "health_Return"]
    /\ UNCHANGED <<proc, handles, request, resp, spans, locals, draws, accepted, tally,
                   script, cluster>>

\* return: the deferred span.End() runs
health_Return(c) ==
    /\ pc[c] = "health_Return"
    /\ spans' = [spans EXCEPT ![c] = EndSpan(@, "health_check")]
    /\ pc' = [pc EXCEPT ![c] = "done"]
    /\ UNCHANGED <<proc, handles, request, resp, locals, draws, emitted, requestCounter,
                   requestDuration, accepted, tally,
                   script, cluster>>

healthHandler(c) ==
    \/ health_Start(c)
    \/ health_Add(c)
    \/ health_WriteHeader(c)
    \/ health_Write(c)
    \/ health_Record(c)
    \/ health_Return(c)

\* ------------------------------------------------------------------------
\* simulateWork
\* ------------------------------------------------------------------------

\* the span a context carries: r.Context() carries none, ctx the do_work
\* span, childCtx the nested_operation span
SpanFromContext(ctx) ==
    CASE ctx = "childCtx" -> "nested_operation"
      [] ctx = "ctx" -> "do_work"
      [] OTHER -> ""

\* workHandler passing its own context to simulateWork
SimulateWorkArg_Parent == "ctx"

\* the context workHandler passes to simulateWork
SimulateWorkArg == "childCtx"

\* span := trace.SpanFromContext(ctx)
\* workDuration := time.Duration(rand.Intn(500)) * time.Millisecond
sim_Draw(c) ==
    /\ pc[c] = "sim_Draw"
    /\ \E n \in IntnSample(WorkMaxMs) :
          /\ draws' = [draws EXCEPT ![c].workMs = n]
          /\ locals' = [locals EXCEPT ![c].span = SpanFromContext(SimulateWorkArg),
                                      ![c].workDuration = DurationOfMs(n)]
    /\ pc' = [pc EXCEPT ![c] = "sim_Sleep"]
    /\ UNCHANGED <<proc, handles, request, resp, spans, emitted, requestCounter,
                   requestDuration, accepted, tally,
                   script, cluster>>

\* a sleep that gives up as soon as the request's context is cancelled
sim_Sleep_Cancellable(c) ==
    /\ pc[c] = "sim_Sleep"
    /\ locals' = [locals EXCEPT ![c].slept =
          IF request[c].cancelled THEN 0 ELSE locals[c].workDuration]
    /\ pc' = [pc EXCEPT ![c] =
          IF request[c].cancelled THEN "work_Return" ELSE "sim_SetAttributes"]
    /\ UNCHANGED <<proc, handles, request, resp, spans, draws, emitted, requestCounter,
                   requestDuration, accepted, tally,
                   script, cluster>>

\* time.Sleep(workDuration) returns: the goroutine was blocked for
\* workDuration nanoseconds
sim_Sleep(c) ==
    /\ pc[c] = "sim_Sleep"
    /\ locals' = [locals EXCEPT ![c].slept = locals[c].workDuration]
    /\ pc' = [pc EXCEPT ![c] = "sim_SetAttributes"]
    /\ UNCHANGED <<proc, handles, request, resp, spans, draws, emitted, requestCounter,
                   requestDuration, accepted, tally,
                   script, cluster>>

\* simulateWork reporting the duration in whole seconds
WorkAttributes_Seconds(workDuration) ==
    {AttrString("work.type", "processing"),
     AttrInt("work.duration_ms", workDuration \div (1000 * Millisecond))}

\* the attributes simulateWork attaches for a sampled workDuration
WorkAttributes(workDuration) ==
    {AttrString("work.type", "processing"),
     AttrInt("work.duration_ms", Milliseconds(workDuration))}

\* span.SetAttributes(work.type, work.duration_ms)
sim_SetAttributes(c) ==
    /\ pc[c] = "sim_SetAttributes"
    /\ spans' = [spans EXCEPT ![c] =
          SetAttributes(@, locals[c].span, WorkAttributes(locals[c].workDuration))]
    /\ pc' = [pc EXCEPT ![c] = "sim_Error"]
    /\ UNCHANGED <<proc, handles, request, resp, locals, draws, emitted, requestCounter,
                   requestDuration, accepted, tally,
                   script, cluster>>

\* the simulated error raised as a panic that unwinds the handler
sim_Error_Panics(c) ==
    /\ pc[c] = "sim_Error"
    /\ \E n \in IntnSample(WorkErrorOdds) :
          /\ draws' = [draws EXCEPT ![c].workErr = n]
          /\ pc' = [pc EXCEPT ![c] = IF n = 0 THEN "panicked" ELSE "work_EndChild"]
    /\ UNCHANGED <<proc, handles, request, resp, spans, locals, emitted, requestCounter,
                   requestDuration, accepted, tally,
                   script, cluster>>

\* if rand.Intn(10) == 0 { span.SetAttributes(error = true); log.Printf(...) }
\* and simulateWork returns to workHandler
sim_Error(c) ==
    /\ pc[c] = "sim_Error"
    /\ \E n \in IntnSample(WorkErrorOdds) :
          /\ draws' = [draws EXCEPT ![c].workErr = n]
          /\ IF n = 0
             THEN /\ spans' = [spans EXCEPT ![c] =
                       SetAttributes(@, locals[c].span, {AttrBool("error", TRUE)})]
                  /\ locals' = [locals EXCEPT ![c].logged = @ + 1]
             ELSE UNCHANGED <<spans, locals>>
    /\ pc' = [pc EXCEPT ![c] = "work_EndChild"]
    /\ UNCHANGED <<proc, handles, request, resp, emitted, requestCounter, requestDuration,
                   accepted, tally,
                   script, cluster>>

simulateWork(c) ==
    \/ sim_Draw(c)
    \/ sim_Sleep(c)
    \/ sim_SetAttributes(c)
    \/ sim_Error(c)

\* ------------------------------------------------------------------------
\* workHandler
\* ------------------------------------------------------------------------

\* ctx, span := tracer.Start(r.Context(), "do_work"); defer span.End()
work_Start(c) ==
    /\ pc[c] = "work_Start"
    /\ handles.tracer # "nil"
    /\ spans' = [spans EXCEPT ![c] =
          StartSpan(@, "do_work", SpanFromContext("r.Context()"))]
    /\ pc' = [pc EXCEPT ![c] = "work_SetAttributes"]
    /\ UNCHANGED <<proc, handles, request, resp, locals, draws, emitted, requestCounter,
                   requestDuration, accepted, tally,
                   script, cluster>>

\* the synthetic identity attributes of a /work request
IdentityAttributes(userId, requestId) ==
    {AttrString("user.id", "user-" \o ToString(userId)),
     AttrString("request.id", "req-" \o ToString(requestId))}

\* span.SetAttributes(user.id, request.id)
work_SetAttributes(c) ==
    /\ pc[c] = "work_SetAttributes"
    /\ \E id \in IdDrawSample :
          /\ draws' = [draws EXCEPT ![c].userId = id[1], ![c].requestId = id[2]]
          /\ spans' = [spans EXCEPT ![c] =
                SetAttributes(@, "do_work", IdentityAttributes(id[1], id[2]))]
    /\ pc' = [pc EXCEPT ![c] = "work_StartChild"]
    /\ UNCHANGED <<proc, handles, request, resp, locals, emitted, requestCounter,
                   requestDuration, accepted, tally,
                   script, cluster>>

\* workHandler starting nested_operation from the request context
work_StartChild_Detached(c) ==
    /\ pc[c] = "work_StartChild"
    /\ handles.tracer # "nil"
    /\ spans' = [spans EXCEPT ![c] =
          StartSpan(@, "nested_operation", SpanFromContext("r.Context()"))]
    /\ pc' = [pc EXCEPT ![c] = "sim_Draw"]
    /\ UNCHANGED <<proc, handles, request, resp, locals, draws, emitted, requestCounter,
                   requestDuration, accepted, tally,
                   script, cluster>>

\* childCtx, childSpan := tracer.Start(ctx, "nested_operation")
\* simulateWork(childCtx) is entered
work_StartChild(c) ==
    /\ pc[c] = "work_StartChild"
    /\ handles.tracer # "nil"
    /\ spans' = [spans EXCEPT ![c] =
          StartSpan(@, "nested_operation", SpanFromContext("ctx"))]
    /\ pc' = [pc EXCEPT ![c] = "sim_Draw"]
    /\ UNCHANGED <<proc, handles, request, resp, locals, draws, emitted, requestCounter,
                   requestDuration, accepted, tally,
                   script, cluster>>

\* workHandler never ending the child span
work_EndChild_Forgotten(c) ==
    /\ pc[c] = "work_EndChild"
    /\ pc' = [pc EXCEPT ![c] = "work_Branch"]
    /\ UNCHANGED <<proc, handles, request, resp, spans, locals, draws, emitted,
                   requestCounter, requestDuration, accepted, tally,
                   script, cluster>>

\* childSpan.End()
work_EndChild(c) ==
    /\ pc[c] = "work_EndChild"
    /\ spans' = [spans EXCEPT ![c] = EndSpan(@, "nested_operation")]
    /\ pc' = [pc EXCEPT ![c] = "work_Branch"]
    /\ UNCHANGED <<proc, handles, request, resp, locals, draws, emitted, requestCounter,
                   requestDuration, accepted, tally,
                   script, cluster>>

\* workHandler leaving status at "200" on the error branch
BranchStatus_Always200(n) == "200"

\* the error branch emitting its metrics without writing the response
work_Branch_NoErrorResponse(c) ==
    /\ pc[c] = "work_Branch"
    /\ \E n \in IntnSample(HttpErrorOdds) :
          /\ draws' = [draws EXCEPT ![c].httpErr = n]
          /\ locals' = [locals EXCEPT ![c].status = IF n = 0 THEN "500" ELSE "200"]
          /\ pc' = [pc EXCEPT ![c] =
                IF n = 0 THEN "work_Add" ELSE "work_WriteHeader200"]
    /\ UNCHANGED <<proc, handles, request, resp, spans, emitted, requestCounter,
                   requestDuration, accepted, tally,
                   script, cluster>>

\* status := "200"; if rand.Intn(20) == 0 { status = "500" ... }
BranchStatus(n) == IF n = 0 THEN "500" ELSE "200"

work_Branch(c) ==
    /\ pc[c] = "work_Branch"
    /\ \E n \in IntnSample(HttpErrorOdds) :
          /\ draws' = [draws EXCEPT ![c].httpErr = n]
          /\ locals' = [locals EXCEPT ![c].status = BranchStatus(n)]
          /\ pc' = [pc EXCEPT ![c] =
                IF n = 0 THEN "work_WriteHeader500" ELSE "work_WriteHeader200"]
    /\ UNCHANGED <<proc, handles, request, resp, spans, emitted, requestCounter,
                   requestDuration, accepted, tally,
                   script, cluster>>

\* w.WriteHeader(http.StatusInternalServerError)
work_WriteHeader500(c) ==
    /\ pc[c] = "work_WriteHeader500"
    /\ resp' = [resp EXCEPT ![c] = WriteHeader(@, StatusInternalServerError)]
    /\ pc' = [pc EXCEPT ![c] = "work_Write500"]
    /\ UNCHANGED <<proc, handles, request, spans, locals, draws, emitted, requestCounter,
                   requestDuration, accepted, tally,
                   script, cluster>>

\* w.Write([]byte("Internal Server Error"))
work_Write500(c) ==
    /\ pc[c] = "work_Write500"
    /\ resp' = [resp EXCEPT ![c] = Write(@, "Internal Server Error")]
    /\ pc' = [pc EXCEPT ![c] = "work_SetError"]
    /\ UNCHANGED <<proc, handles, request, spans, locals, draws, emitted, requestCounter,
                   requestDuration, accepted, tally,
                   script, cluster>>

\* the error branch returning before the metrics are emitted
work_SetError_EarlyReturn(c) ==
    /\ pc[c] = "work_SetError"
    /\ spans' = [spans EXCEPT ![c] =
          SetAttributes(@, "do_work", {AttrBool("error", TRUE)})]
    /\ pc' = [pc EXCEPT ![c] = "work_Return"]
    /\ UNCHANGED <<proc, handles, request, resp, locals, draws, emitted, requestCounter,
                   requestDuration, accepted, tally,
                   script, cluster>>

\* the error branch falling through into the success branch
work_SetError_FallThrough(c) ==
    /\ pc[c] = "work_SetError"
    /\ spans' = [spans EXCEPT ![c] =
          SetAttributes(@, "do_work", {AttrBool("error", TRUE)})]
    /\ pc' = [pc EXCEPT ![c] = "work_WriteHeader200"]
    /\ UNCHANGED <<proc, handles, request, resp, locals, draws, emitted, requestCounter,
                   requestDuration, accepted, tally,
                   script, cluster>>

\* span.SetAttributes(attribute.Bool("error", true))
work_SetError(c) ==
    /\ pc[c] = "work_SetError"
    /\ spans' = [spans EXCEPT ![c] =
          SetAttributes(@, "do_work", {AttrBool("error", TRUE)})]
    /\ pc' = [pc EXCEPT ![c] = "work_Add"]
    /\ UNCHANGED <<proc, handles, request, resp, locals, draws, emitted, requestCounter,
                   requestDuration, accepted, tally,
                   script, cluster>>

\* w.WriteHeader(http.StatusOK)
work_WriteHeader200(c) ==
    /\ pc[c] = "work_WriteHeader200"
    /\ resp' = [resp EXCEPT ![c] = WriteHeader(@, StatusOK)]
    /\ pc' = [pc EXCEPT ![c] = "work_Write200"]
    /\ UNCHANGED <<proc, handles, request, spans, locals, draws, emitted, requestCounter,
                   requestDuration, accepted, tally,
                   script, cluster>>

\* a success body that depends on how many /work requests were counted before
work_Write200_Counted(c) ==
    /\ pc[c] = "work_Write200"
    /\ resp' = [resp EXCEPT ![c] =
          Write(@, IF requestCounter["/work"] = 0 THEN "Work completed successfully"
                   ELSE "Work completed successfully again")]
    /\ pc' = [pc EXCEPT ![c] = "work_Add"]
    /\ UNCHANGED <<proc, handles, request, spans, locals, draws, emitted, requestCounter,
                   requestDuration, accepted, tally,
                   script, cluster>>

\* w.Write([]byte("Work completed successfully"))
work_Write200(c) ==
    /\ pc[c] = "work_Write200"
    /\ resp' = [resp EXCEPT ![c] = Write(@, "Work completed successfully")]
    /\ pc' = [pc EXCEPT ![c] = "work_Add"]
    /\ UNCHANGED <<proc, handles, request, spans, locals, draws, emitted, requestCounter,
                   requestDuration, accepted, tally,
                   script, cluster>>

\* a counter update that counts a failed request twice
work_Add_Weighted(c) ==
    /\ pc[c] = "work_Add"
    /\ CounterAdd(c, IF locals[c].status = "500" THEN 2 ELSE 1,
                  request[c].method, "/work", locals[c].status)
    /\ pc' = [pc EXCEPT ![c] = "work_Record"]
    /\ UNCHANGED <<proc, handles, request, resp, spans, locals, draws, accepted, tally,
                   script, cluster>>

\* requestCounter.Add(ctx, 1, method, "/work", status)
work_Add(c) ==
    /\ pc[c] = "work_Add"
    /\ CounterAdd(c, 1, request[c].method, "/work", locals[c].status)
    /\ pc' = [pc EXCEPT ![c] = "work_Record"]
    /\ UNCHANGED <<proc, handles, request, resp, spans, locals, draws, accepted, tally,
                   script, cluster>>

\* a failed request that is counted but whose duration is not observed
work_Record_SuccessOnly(c) ==
    /\ pc[c] = "work_Record"
    /\ IF locals[c].status = "500"
       THEN UNCHANGED <<emitted, requestCounter, requestDuration>>
       ELSE HistogramRecord(c, request[c].method, "/work")
    /\ pc' = [pc EXCEPT ![c] = "work_Return"]
    /\ UNCHANGED <<proc, handles, request, resp, spans, locals, draws, accepted, tally,
                   script, cluster>>

\* requestDuration.Record(ctx, duration, method, "/work")
work_Record(c) ==
    /\ pc[c] = "work_Record"
    /\ HistogramRecord(c, request[c].method, "/work")
    /\ pc' = [pc EXCEPT ![c] = "work_Return"]
    /\ UNCHANGED <<proc, handles, request, resp, spans, locals, draws, accepted, tally,
                   script, cluster>>

\* TestWorkHandler's bookkeeping for one recorded response
TestTally(t, w) ==
    [total |-> t.total + 1,
     successCount |-> IF w.code = StatusOK THEN t.successCount + 1
                      ELSE t.successCount,
     errorCount |-> IF w.code # StatusOK /\ w.code = StatusInternalServerError
                    THEN t.errorCount + 1 ELSE t.errorCount]

\* return: the deferred span.End() runs and the caller sees the response
work_Return(c) ==
    /\ pc[c] = "work_Return"
    /\ spans' = [spans EXCEPT ![c] = EndSpan(@, "do_work")]
    /\ tally' = TestTally(tally, resp[c])
    /\ pc' = [pc EXCEPT ![c] = "done"]
    /\ UNCHANGED <<proc, handles, request, resp, locals, draws, emitted, requestCounter,
                   requestDuration, accepted,
                   script, cluster>>

workHandler(c) ==
    \/ work_Start(c)
    \/ work_SetAttributes(c)
    \/ work_StartChild(c)
    \/ work_EndChild(c)
    \/ work_Branch(c)
    \/ work_WriteHeader500(c)
    \/ work_Write500(c)
    \/ work_SetError(c)
    \/ work_WriteHeader200(c)
    \/ work_Write200(c)
    \/ work_Add(c)
    \/ work_Record(c)
    \/ work_Return(c)

\* ------------------------------------------------------------------------
\* metricsHandler
\* ------------------------------------------------------------------------

\* metricsHandler obtaining a tracer of its own on every request
metrics_Start_NewTracer(c) ==
    /\ pc[c] = "metrics_Start"
    /\ handles' = [handles EXCEPT !.tracer = "recreated"]
    /\ spans' = [spans EXCEPT ![c] =
          StartSpan(@, "metrics", SpanFromContext("r.Context()"))]
    /\ pc' = [pc EXCEPT ![c] = "metrics_Draw"]
    /\ UNCHANGED <<proc, request, resp, locals, draws, emitted, requestCounter,
                   requestDuration, accepted, tally,
                   script, cluster>>

\* ctx, span := tracer.Start(r.Context(), "metrics"); defer span.End()
metrics_Start(c) ==
    /\ pc[c] = "metrics_Start"
    /\ handles.tracer # "nil"
    /\ spans' = [spans EXCEPT ![c] =
          StartSpan(@, "metrics", SpanFromContext("r.Context()"))]
    /\ pc' = [pc EXCEPT ![c] = "metrics_Draw"]
    /\ UNCHANGED <<proc, handles, request, resp, locals, draws, emitted, requestCounter,
                   requestDuration, accepted, tally,
                   script, cluster>>

\* cpuUsage := rand.Float64() * 100
CpuUsage(k) == FloatMul(Float64(k), CpuScale)

\* memoryUsage := rand.Float64() * 1024 * 1024 * 1024
MemoryUsage(k) == FloatMul(FloatMul(FloatMul(Float64(k), Kibi), Kibi), Kibi)

metrics_Draw(c) ==
    /\ pc[c] = "metrics_Draw"
    /\ \E k1 \in Float64Sample, k2 \in Float64Ends :
          /\ draws' = [draws EXCEPT ![c].cpu = k1, ![c].mem = k2]
          /\ locals' = [locals EXCEPT ![c].cpuUsage = CpuUsage(k1),
                                      ![c].memoryUsage = MemoryUsage(k2)]
    /\ pc' = [pc EXCEPT ![c] = "metrics_SetAttributes"]
    /\ UNCHANGED <<proc, handles, request, resp, spans, emitted, requestCounter,
                   requestDuration, accepted, tally,
                   script, cluster>>

\* span.SetAttributes(system.cpu.usage, system.memory.usage)
metrics_SetAttributes(c) ==
    /\ pc[c] = "metrics_SetAttributes"
    /\ spans' = [spans EXCEPT ![c] = SetAttributes(@, "metrics",
          {AttrFloat64("system.cpu.usage", locals[c].cpuUsage),
           AttrFloat64("system.memory.usage", locals[c].memoryUsage)})]
    /\ pc' = [pc EXCEPT ![c] = "metrics_Add"]
    /\ UNCHANGED <<proc, handles, request, resp, locals, draws, emitted, requestCounter,
                   requestDuration, accepted, tally,
                   script, cluster>>

\* requestCounter.Add(ctx, 1, method, "/metrics", "200")
metrics_Add(c) ==
    /\ pc[c] = "metrics_Add"
    /\ CounterAdd(c, 1, request[c].method, "/metrics", "200")
    /\ pc' = [pc EXCEPT ![c] = "metrics_SetHeader"]
    /\ UNCHANGED <<proc, handles, request, resp, spans, locals, draws, accepted, tally,
                   script, cluster>>

\* the status line written before the Content-Type header is set
metrics_SetHeader_Late(c) ==
    /\ pc[c] = "metrics_SetHeader"
    /\ resp' = [resp EXCEPT ![c] =
          SetContentType(WriteHeader(@, StatusOK), "application/json")]
    /\ pc' = [pc EXCEPT ![c] = "metrics_WriteHeader"]
    /\ UNCHANGED <<proc, handles, request, spans, locals, draws, emitted, requestCounter,
                   requestDuration, accepted, tally,
                   script, cluster>>

\* w.Header().Set("Content-Type", "application/json")
metrics_SetHeader(c) ==
    /\ pc[c] = "metrics_SetHeader"
    /\ resp' = [resp EXCEPT ![c] = SetContentType(@, "application/json")]
    /\ pc' = [pc EXCEPT ![c] = "metrics_WriteHeader"]
    /\ UNCHANGED <<proc, handles, request, spans, locals, draws, emitted, requestCounter,
                   requestDuration, accepted, tally,
                   script, cluster>>

\* w.WriteHeader(http.StatusOK)
metrics_WriteHeader(c) ==
    /\ pc[c] = "metrics_WriteHeader"
    /\ resp' = [resp EXCEPT ![c] = WriteHeader(@, StatusOK)]
    /\ pc' = [pc EXCEPT ![c] = "metrics_Fprintf"]
    /\ UNCHANGED <<proc, handles, request, spans, locals, draws, emitted, requestCounter,
                   requestDuration, accepted, tally,
                   script, cluster>>

\* the body `{"cpu_usage": %.2f, "memory_usage": %.2f}`
MetricsBody(cpuUsage, memoryUsage) ==
    "{\"cpu_usage\": " \o Fmt2fText(cpuUsage) \o
    ", \"memory_usage\": " \o Fmt2fText(memoryUsage) \o "}"

\* a body printed from fresh draws instead of the values on the span
metrics_Fprintf_Redraw(c) ==
    /\ pc[c] = "metrics_Fprintf"
    /\ \E k1 \in Float64Sample, k2 \in Float64Ends :
          resp' = [resp EXCEPT ![c] =
              Write(@, MetricsBody(CpuUsage(k1), MemoryUsage(k2)))]
    /\ pc' = [pc EXCEPT ![c] = "metrics_Record"]
    /\ UNCHANGED <<proc, handles, request, spans, locals, draws, emitted, requestCounter,
                   requestDuration, accepted, tally,
                   script, cluster>>

\* fmt.Fprintf(w, body, cpuUsage, memoryUsage)
metrics_Fprintf(c) ==
    /\ pc[c] = "metrics_Fprintf"
    /\ resp' = [resp EXCEPT ![c] =
          Write(@, MetricsBody(locals[c].cpuUsage, locals[c].memoryUsage))]
    /\ pc' = [pc EXCEPT ![c] = "metrics_Record"]
    /\ UNCHANGED <<proc, handles, request, spans, locals, draws, emitted, requestCounter,
                   requestDuration, accepted, tally,
                   script, cluster>>

\* requestDuration.Record(ctx, duration, method, "/metrics")
metrics_Record(c) ==
    /\ pc[c] = "metrics_Record"
    /\ HistogramRecord(c, request[c].method, "/metrics")
    /\ pc' = [pc EXCEPT ![c] = "metrics_Return"]
    /\ UNCHANGED <<proc, handles, request, resp, spans, locals, draws, accepted, tally,
                   script, cluster>>

\* return: the deferred span.End() runs
metrics_Return(c) ==
    /\ pc[c] = "metrics_Return"
    /\ spans' = [spans EXCEPT ![c] = EndSpan(@, "metrics")]
    /\ pc' = [pc EXCEPT ![c] = "done"]
    /\ UNCHANGED <<proc, handles, request, resp, locals, draws, emitted, requestCounter,
                   requestDuration, accepted, tally,
                   script, cluster>>

metricsHandler(c) ==
    \/ metrics_Start(c)
    \/ metrics_Draw(c)
    \/ metrics_SetAttributes(c)
    \/ metrics_Add(c)
    \/ metrics_SetHeader(c)
    \/ metrics_WriteHeader(c)
    \/ metrics_Fprintf(c)
    \/ metrics_Record(c)
    \/ metrics_Return(c)

\* ------------------------------------------------------------------------
\* main and initTelemetry
\* ------------------------------------------------------------------------

\* the process as the operating system starts it
Started(env) ==
    [pc |-> "main_Start", env |-> env, port |-> "", registered |-> {},
     globals |-> {}, err |-> "", exit |-> -1]

\* os.Exit(code): the process is gone, and with it every handler goroutine
\* still running
Exit(code) ==
    /\ proc' = [proc EXCEPT !.pc = "exited", !.exit = code]
    /\ pc' = [c \in Conns |->
                IF pc[c] \in {"idle", "done"} THEN pc[c] ELSE "killed"]

\* a step of initTelemetry that constructs something: it goes on to `next`,
\* or returns the wrapped error `msg` to main
Construct(at, next, msg) ==
    /\ proc.pc = at
    /\ \E ok \in BOOLEAN :
          proc' = IF ok THEN [proc EXCEPT !.pc = next]
                  ELSE [proc EXCEPT !.pc = "main_FatalInit", !.err = msg]

\* if err := initTelemetry(); ... : main enters initTelemetry
main_Start ==
    /\ proc.pc = "main_Start"
    /\ proc' = [proc EXCEPT !.pc = "it_Resource"]
    /\ UNCHANGED <<pc, request, resp, spans, locals, draws, emitted,
                   requestCounter, requestDuration, accepted, tally, handles,
                   script, cluster>>

\* res, err := resource.New(...)
it_Resource ==
    /\ Construct("it_Resource", "it_TraceExporter", "failed to create resource")
    /\ UNCHANGED <<pc, request, resp, spans, locals, draws, emitted,
                   requestCounter, requestDuration, accepted, tally, handles,
                   script, cluster>>

\* traceExporter, err := otlptracehttp.New(...)
it_TraceExporter ==
    /\ Construct("it_TraceExporter", "it_TracerProvider",
                 "failed to create trace exporter")
    /\ UNCHANGED <<pc, request, resp, spans, locals, draws, emitted,
                   requestCounter, requestDuration, accepted, tally, handles,
                   script, cluster>>

\* otel.SetTracerProvider(tracerProvider); otel.SetTextMapPropagator(...)
it_TracerProvider ==
    /\ proc.pc = "it_TracerProvider"
    /\ proc' = [proc EXCEPT !.pc = "it_MetricExporter",
                            !.globals = @ \cup {"TracerProvider", "TextMapPropagator"}]
    /\ UNCHANGED <<pc, request, resp, spans, locals, draws, emitted,
                   requestCounter, requestDuration, accepted, tally, handles,
                   script, cluster>>

\* metricExporter, err := otlpmetrichttp.New(...)
it_MetricExporter ==
    /\ Construct("it_MetricExporter", "it_MeterProvider",
                 "failed to create metric exporter")
    /\ UNCHANGED <<pc, request, resp, spans, locals, draws, emitted,
                   requestCounter, requestDuration, accepted, tally, handles,
                   script, cluster>>

\* a meter provider that is built but never installed
it_MeterProvider_Forgotten ==
    /\ proc.pc = "it_MeterProvider"
    /\ proc' = [proc EXCEPT !.pc = "it_Tracer"]
    /\ UNCHANGED <<pc, request, resp, spans, locals, draws, emitted,
                   requestCounter, requestDuration, accepted, tally, handles,
                   script, cluster>>

\* otel.SetMeterProvider(meterProvider)
it_MeterProvider ==
    /\ proc.pc = "it_MeterProvider"
    /\ proc' = [proc EXCEPT !.pc = "it_Tracer", !.globals = @ \cup {"MeterProvider"}]
    /\ UNCHANGED <<pc, request, resp, spans, locals, draws, emitted,
                   requestCounter, requestDuration, accepted, tally, handles,
                   script, cluster>>

\* tracer = otel.Tracer(...); meter = otel.Meter(...)
it_Tracer ==
    /\ proc.pc = "it_Tracer"
    /\ handles' = [handles EXCEPT !.tracer = "set", !.meter = "set"]
    /\ proc' = [proc EXCEPT !.pc = "it_Counter"]
    /\ UNCHANGED <<pc, request, resp, spans, locals, draws, emitted,
                   requestCounter, requestDuration, accepted, tally,
                   script, cluster>>

\* an instrument whose creation error is swallowed: initTelemetry goes on
\* with the handle unset
CreateInstrument_Swallowed(at, next, handle, msg) ==
    /\ proc.pc = at
    /\ \E v \in {"nil", "set"} : handles' = [handles EXCEPT ![handle] = v]
    /\ proc' = [proc EXCEPT !.pc = next]

\* a step of initTelemetry that assigns an instrument handle together with
\* err: on an error the handle receives whatever the meter returned with it
CreateInstrument(at, next, handle, msg) ==
    /\ proc.pc = at
    /\ \/ /\ handles' = [handles EXCEPT ![handle] = "set"]
          /\ proc' = [proc EXCEPT !.pc = next]
       \/ /\ \E v \in {"nil", "set"} : handles' = [handles EXCEPT ![handle] = v]
          /\ proc' = [proc EXCEPT !.pc = "main_FatalInit", !.err = msg]

\* requestCounter, err = meter.Int64Counter("http_requests_total", ...)
it_Counter ==
    /\ CreateInstrument("it_Counter", "it_Histogram", "requestCounter",
                        "failed to create counter")
    /\ UNCHANGED <<pc, request, resp, spans, locals, draws, emitted,
                   requestCounter, requestDuration, accepted, tally,
                   script, cluster>>

\* requestDuration, err = meter.Float64Histogram(...); return nil
it_Histogram ==
    /\ CreateInstrument("it_Histogram", "main_Register", "requestDuration",
                        "failed to create histogram")
    /\ UNCHANGED <<pc, request, resp, spans, locals, draws, emitted,
                   requestCounter, requestDuration, accepted, tally,
                   script, cluster>>

initTelemetry ==
    \/ it_Resource
    \/ it_TraceExporter
    \/ it_TracerProvider
    \/ it_MetricExporter
    \/ it_MeterProvider
    \/ it_Tracer
    \/ it_Counter
    \/ it_Histogram

\* main logging the initialisation error and carrying on
main_FatalInit_LogOnly ==
    /\ proc.pc = "main_FatalInit"
    /\ proc' = [proc EXCEPT !.pc = "main_Register"]
    /\ UNCHANGED <<pc, request, resp, spans, locals, draws, emitted,
                   requestCounter, requestDuration, accepted, tally, handles,
                   script, cluster>>

\* log.Fatalf("Failed to initialize telemetry: %v", err)
main_FatalInit ==
    /\ proc.pc = "main_FatalInit"
    /\ Exit(1)
    /\ UNCHANGED <<request, resp, spans, locals, draws, emitted,
                   requestCounter, requestDuration, accepted, tally, handles,
                   script, cluster>>

\* http.HandleFunc for /health, /work and /metrics
main_Register ==
    /\ proc.pc = "main_Register"
    /\ proc' = [proc EXCEPT !.pc = "main_Port",
                            !.registered = {"/health", "/work", "/metrics"}]
    /\ UNCHANGED <<pc, request, resp, spans, locals, draws, emitted,
                   requestCounter, requestDuration, accepted, tally, handles,
                   script, cluster>>

\* a port that ignores the environment
PortOf_Ignored(env) == DefaultPort

\* port := os.Getenv("PORT"); if port == "" { port = "8080" }
PortOf(env) == IF env = "" THEN DefaultPort ELSE env

main_Port ==
    /\ proc.pc = "main_Port"
    /\ proc' = [proc EXCEPT !.pc = "main_Listen", !.port = PortOf(proc.env)]
    /\ UNCHANGED <<pc, request, resp, spans, locals, draws, emitted,
                   requestCounter, requestDuration, accepted, tally, handles,
                   script, cluster>>

\* http.ListenAndServe(":"+port, nil): the listener binds and the server
\* serves, or the call returns the bind error
main_Listen ==
    /\ proc.pc = "main_Listen"
    /\ \E bound \in BOOLEAN :
          proc' = IF bound THEN [proc EXCEPT !.pc = "serving"]
                  ELSE [proc EXCEPT !.pc = "main_FatalServe",
                                    !.err = "listen: address already in use"]
    /\ UNCHANGED <<pc, request, resp, spans, locals, draws, emitted,
                   requestCounter, requestDuration, accepted, tally, handles,
                   script, cluster>>

\* http.ListenAndServe returns while serving: the accept loop failed
server_Fails ==
    /\ proc.pc = "serving"
    /\ proc' = [proc EXCEPT !.pc = "main_FatalServe", !.err = "accept failed"]
    /\ UNCHANGED <<pc, request, resp, spans, locals, draws, emitted,
                   requestCounter, requestDuration, accepted, tally, handles,
                   script, cluster>>

\* main logging the server's error and returning normally
main_FatalServe_Returns ==
    /\ proc.pc = "main_FatalServe"
    /\ Exit(0)
    /\ UNCHANGED <<request, resp, spans, locals, draws, emitted,
                   requestCounter, requestDuration, accepted, tally, handles,
                   script, cluster>>

\* log.Fatalf("Server failed to start: %v", err)
main_FatalServe ==
    /\ proc.pc = "main_FatalServe"
    /\ Exit(1)
    /\ UNCHANGED <<request, resp, spans, locals, draws, emitted,
                   requestCounter, requestDuration, accepted, tally, handles,
                   script, cluster>>

main ==
    \/ main_Start
    \/ initTelemetry
    \/ main_FatalInit
    \/ main_Register
    \/ main_Port
    \/ main_Listen
    \/ server_Fails
    \/ main_FatalServe

\* the caller of the request on connection c goes away: the request's
\* context is cancelled (cancelledAt remembers the statement it happened at)
Disconnect(c) ==
    /\ pc[c] \notin {"idle", "done", "killed"}
    /\ ~request[c].cancelled
    /\ request' = [request EXCEPT ![c].cancelled = TRUE,
                                   ![c].cancelledAt = pc[c]]
    /\ UNCHANGED <<pc, resp, spans, locals, draws, emitted, requestCounter,
                   requestDuration, accepted, tally, proc, handles,
                   script, cluster>>

\* ------------------------------------------------------------------------
\* deploy.sh and create-secret.sh
\* ------------------------------------------------------------------------

ScriptNames == {"deploy.sh", "create-secret.sh"}

\* the command lines of deploy.sh: no option, -N, -h, an unknown option
DeployArgs == {"", "-N", "-h", "-x"}

\* what the user types at "Do you want to update it? (y/N): " (one
\* character, or just Enter), or the end of input
Replies == {"y", "Y", "n", "", "EOF"}

\* what the user types at "Enter your Datadog API key: " (nothing, a blank,
\* a key), or the end of input
Keys == {"", " ", "dd-key", "EOF"}

\* the datadog-api-key secret of the cluster before the script runs
Secrets == {"absent", "old-key"}

UpdatePrompt == "Do you want to update it? (y/N): "
KeyPrompt == "Enter your Datadog API key: "
KeyRequired == "Datadog API key is required"

\* the script as the shell starts it
ScriptStarted(name, args) ==
    [NoScript EXCEPT !.name = name, !.args = args,
                     !.pc = IF name = "deploy.sh" THEN "getopts" ELSE "prereq"]

\* exit code: the script is over
ScriptExit(sc, code, err) == [sc EXCEPT !.pc = "exited", !.exit = code, !.err = err]

\* the script is at statement `at` of the script `name`
At(name, at) == script.name = name /\ script.pc = at

\* a command run under set -e: it succeeds and the script goes on with
\* `next`, or it fails and the script exits with the command's status
Command(cmd, next) ==
    \E ok \in BOOLEAN :
        script' = IF ok THEN [script EXCEPT !.pc = next, !.cmds = Append(@, cmd)]
                  ELSE ScriptExit([script EXCEPT !.cmds = Append(@, cmd)], 1,
                                  cmd \o " failed")

\* what is left alone by every statement of a script
ServerUnchanged ==
    UNCHANGED <<pc, request, resp, spans, locals, draws, emitted, requestCounter,
                requestDuration, accepted, tally, proc, handles>>

\* kubectl delete secret datadog-api-key -n default, under set -e
DeleteSecret(next) ==
    /\ Command("kubectl delete secret", next)
    /\ cluster' = IF script'.pc = next
                  THEN [cluster EXCEPT !.secret = "absent"] ELSE cluster

\* read -s DD_API_KEY after the prompt: the end of input makes read fail
ReadKey(next) ==
    \E k \in Keys :
        script' = IF k = "EOF"
                  THEN ScriptExit([script EXCEPT !.prompts = Append(@, KeyPrompt)],
                                  1, "read failed")
                  ELSE [script EXCEPT !.prompts = Append(@, KeyPrompt),
                                      !.key = k, !.pc = next]

\* a key check that lets the empty key through
CheckKey_Lenient(next) == script' = [script EXCEPT !.pc = next]

\* if [[ -z "$DD_API_KEY" ]]; then print_error ...; exit 1; fi
CheckKey(next) ==
    script' = IF script.key = "" THEN ScriptExit(script, 1, KeyRequired)
              ELSE [script EXCEPT !.pc = next]

\* kubectl create secret generic datadog-api-key --from-literal=api-key=...
CreateSecret(next) ==
    /\ Command("kubectl create secret", next)
    /\ cluster' = IF script'.pc = next
                  THEN [cluster EXCEPT !.secret = script.key] ELSE cluster

\* while getopts "Nh" opt: -N sets SKIP_API_KEY, -h exits 0, anything else
\* exits 1
deploy_Getopts ==
    /\ At("deploy.sh", "getopts")
    /\ script' = CASE script.args = "-h" -> ScriptExit(script, 0, "")
                   [] script.args = "-x" -> ScriptExit(script, 1, "Invalid option")
                   [] script.args = "-N" -> [script EXCEPT !.skip = TRUE, !.pc = "prereq"]
                   [] OTHER -> [script EXCEPT !.pc = "prereq"]
    /\ UNCHANGED cluster
    /\ ServerUnchanged

\* docker and kubectl are installed and kubectl reaches the cluster, or the
\* script exits 1
deploy_Prereq ==
    /\ At("deploy.sh", "prereq")
    /\ \E ok \in BOOLEAN :
          script' = IF ok THEN [script EXCEPT !.pc = "build"]
                    ELSE ScriptExit(script, 1, "prerequisite missing")
    /\ UNCHANGED cluster
    /\ ServerUnchanged

\* docker build -t sample-app:latest . and the image load
deploy_Build ==
    /\ At("deploy.sh", "build")
    /\ Command("docker build", "secret")
    /\ UNCHANGED cluster
    /\ ServerUnchanged

\* if [[ $SKIP_API_KEY == true ]] ... else if kubectl get secret ...
deploy_Secret ==
    /\ At("deploy.sh", "secret")
    /\ script' = IF script.skip THEN [script EXCEPT !.pc = "apply_manifests"]
                 ELSE IF cluster.secret # "absent"
                      THEN [script EXCEPT !.pc = "ask_update"]
                      ELSE [script EXCEPT !.createSecret = "true", !.pc = "if_create"]
    /\ UNCHANGED cluster
    /\ ServerUnchanged

\* a reply that is not honoured: anything but y/Y still asks for a new key
deploy_AskUpdate_AlwaysCreate ==
    /\ At("deploy.sh", "ask_update")
    /\ \E r \in Replies :
          script' = IF r = "EOF"
                    THEN ScriptExit([script EXCEPT !.prompts = Append(@, UpdatePrompt)],
                                    1, "read failed")
                    ELSE [script EXCEPT
                             !.prompts = Append(@, UpdatePrompt),
                             !.reply = r,
                             !.createSecret = "true",
                             !.pc = IF r \in {"y", "Y"} THEN "delete" ELSE "if_create"]
    /\ UNCHANGED cluster
    /\ ServerUnchanged

\* read -p "Do you want to update it? (y/N): " -n 1 -r;
\* if [[ $REPLY =~ ^[Yy]$ ]] ... else CREATE_SECRET=false
deploy_AskUpdate ==
    /\ At("deploy.sh", "ask_update")
    /\ \E r \in Replies :
          script' = IF r = "EOF"
                    THEN ScriptExit([script EXCEPT !.prompts = Append(@, UpdatePrompt)],
                                    1, "read failed")
                    ELSE [script EXCEPT
                             !.prompts = Append(@, UpdatePrompt),
                             !.reply = r,
                             !.createSecret = IF r \in {"y", "Y"} THEN @ ELSE "false",
                             !.pc = IF r \in {"y", "Y"} THEN "delete" ELSE "if_create"]
    /\ UNCHANGED cluster
    /\ ServerUnchanged

\* kubectl delete secret datadog-api-key -n default; CREATE_SECRET=true
deploy_Delete ==
    /\ At("deploy.sh", "delete")
    /\ \E ok \in BOOLEAN :
          /\ script' = IF ok
                THEN [script EXCEPT !.pc = "if_create", !.createSecret = "true",
                                    !.cmds = Append(@, "kubectl delete secret")]
                ELSE ScriptExit([script EXCEPT !.cmds = Append(@, "kubectl delete secret")],
                                1, "kubectl delete secret failed")
          /\ cluster' = IF ok THEN [cluster EXCEPT !.secret = "absent"] ELSE cluster
    /\ ServerUnchanged

\* if [[ $CREATE_SECRET == true ]]
deploy_IfCreate ==
    /\ At("deploy.sh", "if_create")
    /\ script' = [script EXCEPT !.pc = IF script.createSecret = "true"
                                       THEN "read_key" ELSE "apply_manifests"]
    /\ UNCHANGED cluster
    /\ ServerUnchanged

\* echo -n "Enter your Datadog API key: "; read -s DD_API_KEY
deploy_ReadKey ==
    /\ At("deploy.sh", "read_key")
    /\ ReadKey("check_key")
    /\ UNCHANGED cluster
    /\ ServerUnchanged

\* if [[ -z "$DD_API_KEY" ]]; then ... exit 1
deploy_CheckKey ==
    /\ At("deploy.sh", "check_key")
    /\ CheckKey("create")
    /\ UNCHANGED cluster
    /\ ServerUnchanged

\* kubectl create secret generic datadog-api-key ...
deploy_Create ==
    /\ At("deploy.sh", "create")
    /\ CreateSecret("apply_manifests")
    /\ ServerUnchanged

\* kubectl apply -f k8s-manifests.yaml
deploy_ApplyManifests ==
    /\ At("deploy.sh", "apply_manifests")
    /\ Command("kubectl apply -f k8s-manifests.yaml", "apply_loadgen")
    /\ cluster' = IF script'.pc = "apply_loadgen"
                  THEN [cluster EXCEPT !.applied = @ \cup {"k8s-manifests.yaml"}]
                  ELSE cluster
    /\ ServerUnchanged

\* kubectl apply -f load-generator.yaml
deploy_ApplyLoadGenerator ==
    /\ At("deploy.sh", "apply_loadgen")
    /\ Command("kubectl apply -f load-generator.yaml", "wait")
    /\ cluster' = IF script'.pc = "wait"
                  THEN [cluster EXCEPT !.applied = @ \cup {"load-generator.yaml"}]
                  ELSE cluster
    /\ ServerUnchanged

\* the two kubectl wait commands, the second one under set -e, and the
\* closing messages
deploy_Wait ==
    /\ At("deploy.sh", "wait")
    /\ \E ok \in BOOLEAN :
          script' = IF ok THEN ScriptExit(script, 0, "")
                    ELSE ScriptExit(script, 1, "kubectl wait failed")
    /\ UNCHANGED cluster
    /\ ServerUnchanged

deploy ==
    \/ deploy_Getopts
    \/ deploy_Prereq
    \/ deploy_Build
    \/ deploy_Secret
    \/ deploy_AskUpdate
    \/ deploy_Delete
    \/ deploy_IfCreate
    \/ deploy_ReadKey
    \/ deploy_CheckKey
    \/ deploy_Create
    \/ deploy_ApplyManifests
    \/ deploy_ApplyLoadGenerator
    \/ deploy_Wait

\* create-secret.sh: kubectl is installed and reaches the cluster, or the
\* script exits 1
create_Prereq ==
    /\ At("create-secret.sh", "prereq")
    /\ \E ok \in BOOLEAN :
          script' = IF ok THEN [script EXCEPT !.pc = "replace"]
                    ELSE ScriptExit(script, 1, "prerequisite missing")
    /\ UNCHANGED cluster
    /\ ServerUnchanged

\* if kubectl get secret ...; then kubectl delete secret ...; fi
create_Replace ==
    /\ At("create-secret.sh", "replace")
    /\ IF cluster.secret # "absent"
       THEN DeleteSecret("read_key")
       ELSE /\ script' = [script EXCEPT !.pc = "read_key"]
            /\ UNCHANGED cluster
    /\ ServerUnchanged

\* echo -n "Enter your Datadog API key: "; read -s DD_API_KEY
create_ReadKey ==
    /\ At("create-secret.sh", "read_key")
    /\ ReadKey("check_key")
    /\ UNCHANGED cluster
    /\ ServerUnchanged

\* if [[ -z "$DD_API_KEY" ]]; then ... exit 1
create_CheckKey ==
    /\ At("create-secret.sh", "check_key")
    /\ CheckKey("create")
    /\ UNCHANGED cluster
    /\ ServerUnchanged

\* kubectl create secret generic datadog-api-key ... and the closing
\* messages
create_Create ==
    /\ At("create-secret.sh", "create")
    /\ \E ok \in BOOLEAN :
          /\ script' = IF ok
                THEN ScriptExit([script EXCEPT !.cmds = Append(@, "kubectl create secret")],
                                0, "")
                ELSE ScriptExit([script EXCEPT !.cmds = Append(@, "kubectl create secret")],
                                1, "kubectl create secret failed")
          /\ cluster' = IF ok THEN [cluster EXCEPT !.secret = script.key] ELSE cluster
    /\ ServerUnchanged

createSecret ==
    \/ create_Prereq
    \/ create_Replace
    \/ create_ReadKey
    \/ create_CheckKey
    \/ create_Create

\* ------------------------------------------------------------------------
\* Specification
\* ------------------------------------------------------------------------

Next ==
    \E c \in Conns :
        \/ Serve(c)
        \/ healthHandler(c)
        \/ workHandler(c)
        \/ simulateWork(c)
        \/ metricsHandler(c)

Spec == Init /\ [][Next]_vars

\* the connections the whole-process specification serves
MainConns == {1}

\* the process is started with some PORT and nothing initialised
InitMain ==
    /\ NothingServed
    /\ \E env \in PortEnv : proc = Started(env)
    /\ handles = [h \in HandleNames |-> "nil"]
    /\ script = NoScript
    /\ cluster = NoCluster

NextMain ==
    \/ main
    \/ \E c \in MainConns :
          \/ Serve(c)
          \/ Disconnect(c)
          \/ healthHandler(c)
          \/ workHandler(c)
          \/ simulateWork(c)
          \/ metricsHandler(c)

\* the whole process, from its start
SpecMain == InitMain /\ [][NextMain]_vars

\* TestWorkHandler's loop: totalRuns direct calls of workHandler, one after
\* the other, each with a fresh GET request and a fresh recorder
TotalRuns == 100

\* the connection standing for the test's recorder
RunConn == 1

\* req := httptest.NewRequest("GET", "/work", nil); w := httptest.NewRecorder();
\* workHandler(w, req)
test_Call(c) ==
    /\ pc[c] \in {"idle", "done"}
    /\ tally.total < TotalRuns
    /\ request' = [request EXCEPT ![c] =
          [endpoint |-> "/work", method |-> "GET", cancelled |-> FALSE,
           cancelledAt |-> ""]]
    /\ pc' = [pc EXCEPT ![c] = "work_Start"]
    /\ resp' = [resp EXCEPT ![c] = NewResponse]
    /\ spans' = [spans EXCEPT ![c] = [n \in SpanNames |-> NoSpan]]
    /\ locals' = [locals EXCEPT ![c] = NoLocals]
    /\ draws' = [draws EXCEPT ![c] = NoDraws]
    /\ emitted' = [emitted EXCEPT ![c] = NoEmitted]
    /\ UNCHANGED <<proc, handles, requestCounter, requestDuration, accepted, tally,
                   script, cluster>>

NextRun ==
    \/ test_Call(RunConn)
    \/ workHandler(RunConn)
    \/ simulateWork(RunConn)

\* the test's loop, telemetry initialised
SpecRun == Init /\ [][NextRun]_vars

\* one of the scripts is run, with some command line, against a cluster
\* that has the secret or not; the server is not part of it
InitDeploy ==
    /\ NothingServed
    /\ proc = Started("")
    /\ handles = [h \in HandleNames |-> "nil"]
    /\ \E name \in ScriptNames, args \in DeployArgs, secret \in Secrets :
          /\ name = "create-secret.sh" => args = ""
          /\ script = ScriptStarted(name, args)
          /\ cluster = [secret |-> secret, initial |-> secret, applied |-> {}]

NextDeploy ==
    \/ deploy
    \/ createSecret

\* a run of deploy.sh or of create-secret.sh
SpecDeploy == InitDeploy /\ [][NextDeploy]_vars

\* ------------------------------------------------------------------------
\* Properties
\* ------------------------------------------------------------------------

Done(c) == pc[c] = "done"
Handled(c, e) == Done(c) /\ request[c].endpoint = e
HasAttr(c, name, kv) == kv \in spans[c][name].attrs
HasKey(c, name, k) == \E a \in spans[c][name].attrs : a.key = k

\* C1: every handler invocation that has run to completion made exactly one
\* requestCounter.Add, of value 1, and exactly one requestDuration.Record,
\* both for its own endpoint, on every branch; no request ever makes more.
C1_OneAddOneRecord ==
    \A c \in Conns :
        /\ Len(emitted[c].adds) <= 1
        /\ Len(emitted[c].records) <= 1
        /\ Done(c) =>
              /\ Len(emitted[c].adds) = 1
              /\ emitted[c].adds[1].value = 1
              /\ emitted[c].adds[1].endpoint = request[c].endpoint
              /\ Len(emitted[c].records) = 1
              /\ emitted[c].records[1].endpoint = request[c].endpoint

\* a /work request completed on the HTTP 500 branch after simulateWork took
\* its simulated-error branch, while a /health or /metrics request completed
C1_Witness ==
    \E c, d \in Conns :
        /\ Handled(c, "/work") /\ resp[c].code = 500 /\ draws[c].workErr = 0
        /\ Done(d) /\ request[d].endpoint # "/work"

\* C2: every completed /health request, whatever its method and whatever was
\* served before, has status 200, body "OK", no Content-Type set by the
\* handler, and one counter increment tagged status=200.
C2_HealthAlwaysOK ==
    \A c \in Conns :
        Handled(c, "/health") =>
            /\ resp[c].code = 200
            /\ resp[c].body = "OK"
            /\ resp[c].contentType = ""
            /\ resp[c].sentContentType = ""
            /\ Len(emitted[c].adds) = 1
            /\ emitted[c].adds[1].status = "200"

\* a /health request with a method other than GET and POST completed after
\* a /work request that answered 500
C2_Witness ==
    \E c, d \in Conns :
        /\ Handled(c, "/health") /\ request[c].method = "DELETE"
        /\ Handled(d, "/work") /\ resp[d].code = 500

\* C3: every completed /work response is (200, "Work completed
\* successfully") or (500, "Internal Server Error"), and the test's
\* successCount + errorCount equals the number of responses it has seen.
C3_WorkTwoOutcomes ==
    /\ \A c \in Conns :
          Handled(c, "/work") =>
              \/ resp[c].code = 200 /\ resp[c].body = "Work completed successfully"
              \/ resp[c].code = 500 /\ resp[c].body = "Internal Server Error"
    /\ tally.successCount + tally.errorCount = tally.total

\* two /work requests completed, one of each outcome
C3_Witness ==
    /\ tally.total = 2
    /\ tally.successCount = 1
    /\ tally.errorCount = 1

\* C4: for a completed /work request, status 500, counter tag status="500"
\* and error=true on the do_work span hold together or not at all; otherwise
\* the status is 200, the tag "200" and do_work has no error attribute; the
\* simulated work anomaly marks the nested_operation span only.
C4_ErrorSignalsAgree ==
    \A c \in Conns :
        Handled(c, "/work") =>
            LET is500 == resp[c].code = 500
                tag500 == emitted[c].adds[1].status = "500"
                spanErr == HasAttr(c, "do_work", AttrBool("error", TRUE))
            IN  /\ is500 <=> tag500
                /\ is500 <=> spanErr
                /\ ~is500 => /\ resp[c].code = 200
                             /\ emitted[c].adds[1].status = "200"
                             /\ ~HasKey(c, "do_work", "error")
                /\ HasKey(c, "nested_operation", "error") <=> draws[c].workErr = 0

\* a /work request answered 200 although simulateWork took its error branch,
\* and another answered 500 although simulateWork did not
C4_Witness ==
    \E c, d \in Conns :
        /\ Handled(c, "/work") /\ resp[c].code = 200 /\ draws[c].workErr = 0
        /\ Handled(d, "/work") /\ resp[d].code = 500 /\ draws[d].workErr # 0

\* C5: every completed /metrics request has status 200, Content-Type
\* application/json, and printed two-decimal values cpu_usage in [0, 100)
\* and memory_usage in [0, 2^30), for every draw.
C5_MetricsInRange ==
    \A c \in Conns :
        Handled(c, "/metrics") =>
            /\ resp[c].code = 200
            /\ resp[c].sentContentType = "application/json"
            /\ resp[c].body = MetricsBody(locals[c].cpuUsage, locals[c].memoryUsage)
            /\ Fmt2f(locals[c].cpuUsage).whole >= 0
            /\ Fmt2f(locals[c].cpuUsage).whole < CpuScale
            /\ Fmt2f(locals[c].memoryUsage).whole >= 0
            /\ Fmt2f(locals[c].memoryUsage).whole < Kibi * Kibi * Kibi

\* the spans simulateWork's attributes went to, once it has set them
SimAttributesSet(c) ==
    /\ request[c].endpoint = "/work"
    /\ pc[c] \in {"sim_Error", "work_EndChild", "work_Branch",
                  "work_WriteHeader500", "work_Write500", "work_SetError",
                  "work_WriteHeader200", "work_Write200", "work_Add",
                  "work_Record", "work_Return", "done"}

\* C6: the duration simulateWork blocks for is a whole number of
\* milliseconds in [0, 500), the sampled one, and the current span carries
\* work.duration_ms equal to exactly that number and work.type "processing".
C6_WorkDurationAttribute ==
    \A c \in Conns :
        /\ locals[c].slept # -1 =>
              /\ locals[c].slept % Millisecond = 0
              /\ locals[c].slept \div Millisecond \in Intn(WorkMaxMs)
              /\ locals[c].slept = draws[c].workMs * Millisecond
        /\ SimAttributesSet(c) =>
              /\ \A a \in spans[c]["nested_operation"].attrs :
                    /\ a.key = "work.duration_ms" =>
                          a = AttrInt("work.duration_ms", locals[c].slept \div Millisecond)
                    /\ a.key = "work.type" => a = AttrString("work.type", "processing")
              /\ HasKey(c, "nested_operation", "work.duration_ms")
              /\ HasKey(c, "nested_operation", "work.type")

\* simulateWork has slept the longest sampled duration and set its attributes
C6_Witness ==
    \E c \in Conns :
        /\ SimAttributesSet(c)
        /\ locals[c].slept = (WorkMaxMs - 1) * Millisecond
        /\ HasAttr(c, "nested_operation", AttrInt("work.duration_ms", WorkMaxMs - 1))

\* C7: every call of simulateWork blocks for at least 1 millisecond and at
\* most 600 milliseconds.
C7_WorkTakesTime ==
    \A c \in Conns :
        locals[c].slept # -1 =>
            /\ locals[c].slept >= 1 * Millisecond
            /\ locals[c].slept <= 600 * Millisecond

\* the response, counter tag and do_work attributes of a completed /work
\* request
WorkOutcome(c) ==
    [code |-> resp[c].code, body |-> resp[c].body,
     contentType |-> resp[c].sentContentType,
     tags |-> [i \in 1 .. Len(emitted[c].adds) |-> emitted[c].adds[i].status],
     attrs |-> spans[c]["do_work"].attrs]

\* two requests received the same draws, simulateWork's error draw apart
SameDrawsButWorkErr(c, d) ==
    /\ draws[c].userId = draws[d].userId
    /\ draws[c].requestId = draws[d].requestId
    /\ draws[c].workMs = draws[d].workMs
    /\ draws[c].httpErr = draws[d].httpErr

C8_NoInterference ==
    \A c, d \in Conns :
        Handled(c, "/work") /\ Handled(d, "/work") /\ SameDrawsButWorkErr(c, d)
            => WorkOutcome(c) = WorkOutcome(d)

C8_AlwaysContinues ==
    \A c \in Conns :
        /\ pc[c] = "sim_Error" /\ pc'[c] # pc[c] => pc'[c] = "work_EndChild"
        /\ pc[c] = "work_EndChild" /\ pc'[c] # pc[c] => pc'[c] = "work_Branch"

\* C8: simulateWork's 1-in-10 error draw never changes control flow or the
\* response: two completed /work requests that agree on every other draw
\* have the same status, body, counter status tag and do_work attributes,
\* and simulateWork always returns to workHandler, which always goes on to
\* its outcome branch.
C8_AnomalyIsAnnotationOnly ==
    /\ []C8_NoInterference
    /\ [][C8_AlwaysContinues]_vars

\* two completed /work requests that differ in simulateWork's error draw only
C8_Witness ==
    \E c, d \in Conns :
        /\ Handled(c, "/work") /\ Handled(d, "/work")
        /\ SameDrawsButWorkErr(c, d)
        /\ draws[c].workErr = 0 /\ draws[d].workErr # 0

\* the spans the handler of an endpoint starts
SpansOf(e) ==
    CASE e = "/health" -> {"health_check"}
      [] e = "/work" -> {"do_work", "nested_operation"}
      [] e = "/metrics" -> {"metrics"}
      [] OTHER -> {}

\* C9: every span a handler starts is ended exactly once by the time the
\* handler returns; no span is ended twice and none stays open after its
\* request has completed.
C9_SpansEndedOnce ==
    \A c \in Conns :
        /\ \A n \in SpanNames :
              /\ spans[c][n].ends <= 1
              /\ spans[c][n].state = "open" => spans[c][n].ends = 0
              /\ spans[c][n].state # "none" => n \in SpansOf(request[c].endpoint)
        /\ Done(c) => \A n \in SpansOf(request[c].endpoint) :
              spans[c][n].state = "ended" /\ spans[c][n].ends = 1

\* a /work request completed on its 500 branch
C9_Witness ==
    \E c \in Conns :
        /\ Handled(c, "/work") /\ resp[c].code = 500
        /\ spans[c]["do_work"].ends = 1
        /\ spans[c]["nested_operation"].ends = 1

\* simulateWork is running on connection c
InSimulateWork(c) ==
    pc[c] \in {"sim_Draw", "sim_Sleep", "sim_SetAttributes", "sim_Error"}

\* C10: nested_operation is a child of the request's do_work span, is open
\* for the whole of simulateWork, and is ended after simulateWork returns
\* and before the outcome branch is drawn, before anything of the response
\* is written and before do_work ends.
C10_ChildInsideParent ==
    \A c \in Conns :
        LET child == spans[c]["nested_operation"]
            parent == spans[c]["do_work"]
        IN  /\ child.state # "none" =>
                  child.parent = "do_work" /\ parent.state # "none"
            /\ InSimulateWork(c) => child.state = "open"
            /\ child.state = "open" =>
                  /\ parent.state = "open"
                  /\ draws[c].httpErr = -1
                  /\ resp[c] = NewResponse
            /\ child.state = "ended" =>
                  /\ ~InSimulateWork(c)
                  /\ draws[c].workErr # -1
            /\ pc[c] = "work_Branch" =>
                  child.state = "ended" /\ parent.state = "open"
            /\ parent.state = "ended" => child.state = "ended"

\* the child span has ended while its parent is open, nothing is written and
\* the outcome is not drawn; the other connection is inside simulateWork
C10_Witness ==
    \E c, d \in Conns :
        /\ spans[c]["nested_operation"].state = "ended"
        /\ spans[c]["do_work"].state = "open"
        /\ draws[c].httpErr = -1
        /\ resp[c] = NewResponse
        /\ pc[d] = "sim_Sleep"

\* the span a handler starts first
RootSpan(e) ==
    CASE e = "/health" -> "health_check"
      [] e = "/work" -> "do_work"
      [] e = "/metrics" -> "metrics"

\* the response of the request on c is written: header and body
ResponseWritten(c) == resp[c].code # 0 /\ resp[c].writes >= 1

\* C11: in every handler the span is started first, then the response is
\* written, then the instruments are recorded: no counter increment and no
\* histogram observation of a request precedes its written response.
C11_MetricsAfterResponse ==
    \A c \in Conns :
        /\ resp[c] # NewResponse =>
              spans[c][RootSpan(request[c].endpoint)].state # "none"
        /\ emitted[c].adds # <<>> => ResponseWritten(c)
        /\ emitted[c].records # <<>> => ResponseWritten(c)

\* C11 as amended: in every handler the span is started before anything is
\* written or recorded, and the histogram observation never precedes the
\* written response; the counter increment follows the response in
\* workHandler only, and precedes it in healthHandler and metricsHandler.
C11_RecordAfterResponse ==
    \A c \in Conns :
        /\ resp[c] # NewResponse \/ emitted[c] # NoEmitted =>
              spans[c][RootSpan(request[c].endpoint)].state # "none"
        /\ emitted[c].records # <<>> => ResponseWritten(c)
        /\ request[c].endpoint = "/work" =>
              (emitted[c].adds # <<>> => ResponseWritten(c))
        /\ request[c].endpoint \in {"/health", "/metrics"} =>
              (resp[c] # NewResponse => emitted[c].adds # <<>>)

\* a /health request has incremented the counter and written nothing yet,
\* while a /work request has written its response and not yet incremented
C11_Witness ==
    \E c, d \in Conns :
        /\ request[c].endpoint = "/health"
        /\ Len(emitted[c].adds) = 1 /\ resp[c] = NewResponse
        /\ request[d].endpoint = "/work"
        /\ ResponseWritten(d) /\ emitted[d].adds = <<>>

\* the request on connection c is being handled
InFlight(c) == pc[c] \notin {"idle", "done", "killed"}

\* the next statement of the handler running on connection c
HandlerStep(c) ==
    \/ healthHandler(c)
    \/ workHandler(c)
    \/ simulateWork(c)
    \/ metricsHandler(c)

\* C12: requests are not serialized: while a /work request is blocked in
\* simulateWork's sleep, every other connection can accept a request, and
\* the next statement of every request in flight can always run, whatever
\* the other connections are doing.
C12_NotSerialized ==
    \A d \in Conns :
        /\ InFlight(d) => ENABLED HandlerStep(d)
        /\ \A c \in Conns \ {d} :
              pc[c] = "sim_Sleep" /\ ~InFlight(d) /\ accepted < MaxRequests
                  => ENABLED Serve(d)

\* two requests are blocked in simulateWork's sleep at once: the second
\* went through all its earlier statements while the first was blocked
C12_Witness ==
    \E c, d \in Conns :
        /\ c # d
        /\ pc[c] = "sim_Sleep" /\ pc[d] = "sim_Sleep"

\* main is inside initTelemetry
InInitTelemetry ==
    proc.pc \in {"it_Resource", "it_TraceExporter", "it_TracerProvider",
                 "it_MetricExporter", "it_MeterProvider", "it_Tracer",
                 "it_Counter", "it_Histogram"}

C13_HandleWrites ==
    /\ handles' # handles => InInitTelemetry /\ proc'.pc # proc.pc
    /\ \A h \in HandleNames : handles[h] # "nil" => handles'[h] = handles[h]
    /\ (\E c \in Conns : InFlight(c) /\ pc'[c] # pc[c] /\ proc'.pc # "exited")
          => handles' = handles /\ proc' = proc

C13_HandlesSetWhileServing ==
    proc.pc = "serving" \/ (\E c \in Conns : InFlight(c))
        => \A h \in HandleNames : handles[h] = "set"

\* C13: tracer, meter, requestCounter and requestDuration are write-once:
\* each is assigned only by a step of initTelemetry, never again once it
\* holds a value, and no statement of a handler or of simulateWork writes a
\* handle or any other state of the process, so that handlers find all four
\* handles as initTelemetry left them.  (The aggregation inside the
\* instruments belongs to the telemetry client.)
C13_HandlesWriteOnce ==
    /\ [][C13_HandleWrites]_vars
    /\ []C13_HandlesSetWhileServing

\* a handler is running, blocked in simulateWork, with every handle assigned
\* by initTelemetry
C13_Witness ==
    /\ proc.pc = "serving"
    /\ \E c \in Conns : pc[c] = "sim_Sleep"
    /\ \A h \in HandleNames : handles[h] = "set"

\* a cancelled /work request that has completed did everything an
\* uncancelled one does
C14_CancelledCompletes ==
    \A c \in Conns :
        request[c].cancelled /\ request[c].endpoint = "/work" =>
            /\ locals[c].slept # -1 => locals[c].slept = locals[c].workDuration
            /\ Done(c) =>
                  /\ locals[c].slept = DurationOfMs(draws[c].workMs)
                  /\ spans[c]["nested_operation"].state = "ended"
                  /\ ResponseWritten(c)
                  /\ Len(emitted[c].adds) = 1
                  /\ Len(emitted[c].records) = 1
                  /\ spans[c]["do_work"].state = "ended"

\* a cancelled request leaves the sleep the way every request does
C14_SleepCompletes ==
    \A c \in Conns :
        request[c].cancelled /\ pc[c] = "sim_Sleep" /\ pc'[c] \notin {pc[c], "killed"}
            => /\ pc'[c] = "sim_SetAttributes"
               /\ locals'[c].slept = locals[c].workDuration

\* C14: there is no cancellation: a caller disconnect at any point after a
\* /work request has entered simulateWork neither shortens nor aborts the
\* sleep, and the handler still ends the child span, writes a response,
\* increments the counter, records the histogram and ends do_work.
C14_NoCancellation ==
    /\ []C14_CancelledCompletes
    /\ [][C14_SleepCompletes]_vars

\* a /work request whose caller went away during the longest sleep has
\* completed
C14_Witness ==
    \E c \in Conns :
        /\ Handled(c, "/work")
        /\ request[c].cancelledAt = "sim_Sleep"
        /\ draws[c].workMs = WorkMaxMs - 1

\* two invocations of the same handler, for the same method, that are at
\* the same statement and have received the same random draws
SameInputs(c, d) ==
    /\ pc[c] = pc[d]
    /\ pc[c] # "idle"
    /\ request[c].endpoint = request[d].endpoint
    /\ request[c].method = request[d].method
    /\ draws[c] = draws[d]

\* C15: handlers are stateless across requests: whatever was handled before
\* or is being handled at the same time, two requests that receive the same
\* random draws produce the same status, body, headers, span attributes and
\* metric tags, and agree at every statement on the way.
C15_Stateless ==
    \A c, d \in Conns :
        SameInputs(c, d) =>
            /\ resp[c] = resp[d]
            /\ spans[c] = spans[d]
            /\ emitted[c] = emitted[d]
            /\ locals[c] = locals[d]

\* two successful /work requests with the same draws have completed, the
\* counter having counted both
C15_Witness ==
    \E c, d \in Conns :
        /\ c # d
        /\ SameInputs(c, d)
        /\ Handled(c, "/work")
        /\ resp[c].code = StatusOK
        /\ requestCounter["/work"] = 2

\* the errors initTelemetry returns, one for each step that can fail
InitErrors ==
    {"failed to create resource", "failed to create trace exporter",
     "failed to create metric exporter", "failed to create counter",
     "failed to create histogram"}

\* after initTelemetry returned an error the process is about to exit or has
\* exited with 1, and has done nothing else
C16_NothingAfterInitError ==
    proc.err \in InitErrors =>
        /\ proc.pc \in {"main_FatalInit", "exited"}
        /\ proc.pc = "exited" => proc.exit = 1
        /\ proc.registered = {}
        /\ proc.port = ""
        /\ accepted = 0
        /\ \A c \in Conns : pc[c] = "idle"

\* a request is only ever accepted by a process whose initTelemetry ran to
\* its end
C16_ServedOnlyWhenInitialised ==
    accepted > 0 =>
        /\ \A h \in HandleNames : handles[h] # "nil"
        /\ proc.globals = OtelGlobals
        /\ proc.registered = Endpoints

\* the step main takes with the error is the exit
C16_ExitIsNext ==
    proc.pc = "main_FatalInit" /\ proc' # proc =>
        proc'.pc = "exited" /\ proc'.exit = 1

\* C16: if initTelemetry returns an error at any of its steps, main logs
\* fatally and the process exits non-zero immediately: no handler is
\* registered, the port is not read, the listener is never started and no
\* request is ever served by a partially initialised process.
C16_InitFailureIsFatal ==
    /\ []C16_NothingAfterInitError
    /\ []C16_ServedOnlyWhenInitialised
    /\ [][C16_ExitIsNext]_vars

\* the process has exited because the histogram could not be created, the
\* tracer provider and the counter being in place already
C16_Witness ==
    /\ proc.pc = "exited"
    /\ proc.exit = 1
    /\ proc.err = "failed to create histogram"
    /\ handles.requestCounter = "set"
    /\ "TracerProvider" \in proc.globals

\* the errors http.ListenAndServe returns
ServeErrors == {"listen: address already in use", "accept failed"}

\* after the server failed the process is about to exit or has exited with
\* a non-zero code, and no exit is ever with code 0
C17_NoCleanExit ==
    /\ proc.pc = "exited" => proc.exit > 0
    /\ proc.err \in ServeErrors =>
          /\ proc.pc \in {"main_FatalServe", "exited"}
          /\ proc.pc = "exited" => proc.exit = 1

\* the step main takes with the server's error is the exit
C17_ExitIsNext ==
    proc.pc = "main_FatalServe" /\ proc' # proc =>
        proc'.pc = "exited" /\ proc'.exit = 1

\* C17: if the HTTP listener cannot bind, or the server ever stops with an
\* error, main logs fatally and the process exits non-zero; the process
\* never terminates with exit code 0 after the server has failed.
C17_ServerFailureIsFatal ==
    /\ []C17_NoCleanExit
    /\ [][C17_ExitIsNext]_vars

\* the process has exited because the listener could not bind the port
C17_Witness ==
    /\ proc.pc = "exited"
    /\ proc.exit = 1
    /\ proc.err = "listen: address already in use"
    /\ proc.port = "9090"

\* C18: issuing 100 GET requests to /work always yields successCount > 0:
\* in every run of 100 consecutive /work requests at least one response has
\* status 200 (errorCount = 0 being allowed).
C18_SomeSuccess ==
    tally.total = TotalRuns => tally.successCount > 0

\* the steps of the server when every request is a GET: no handler branches
\* on the method, which only ends up in the metric tags
NextGet == Next /\ \A c \in Conns : request'[c].method \in {"", "GET"}

\* the server's goroutines are scheduled fairly: a handler whose next
\* statement can run eventually runs it
FairSpec ==
    /\ Init
    /\ [][NextGet]_vars
    /\ \A c \in Conns : WF_vars(HandlerStep(c))

\* a handler that has returned wrote one header and one body, and no
\* handler or process was aborted
C19_OneResponse ==
    /\ proc.pc = "serving"
    /\ \A c \in Conns :
          /\ pc[c] \notin {"killed", "panicked"}
          /\ resp[c].headerCalls <= 1 /\ resp[c].writes <= 1
          /\ Done(c) => resp[c].headerCalls = 1 /\ resp[c].writes = 1

\* C19: every handler invocation terminates without an uncaught
\* process-level error: under fair scheduling each started request
\* eventually writes exactly one response and returns, and no handler step
\* aborts the handler or the process.
C19_HandlersTerminate ==
    /\ \A c \in Conns : InFlight(c) ~> (Done(c) /\ ResponseWritten(c))
    /\ []C19_OneResponse

\* a /work request that took the simulated-error branch and the HTTP 500
\* branch has returned with its one response
C19_Witness ==
    \E c \in Conns :
        /\ Handled(c, "/work")
        /\ draws[c].workErr = 0
        /\ resp[c].code = StatusInternalServerError
        /\ resp[c].headerCalls = 1 /\ resp[c].writes = 1

\* http_requests_total summed over its attribute sets
CounterTotal ==
    requestCounter["/health"] + requestCounter["/work"] + requestCounter["/metrics"]

\* a step leaves every series of the counter alone or adds exactly 1 to
\* exactly one of them
C20_AddsOne ==
    /\ \A e \in Endpoints :
          requestCounter'[e] \in {requestCounter[e], requestCounter[e] + 1}
    /\ CounterTotal' \in {CounterTotal, CounterTotal + 1}

\* once no request is in flight the counter equals the number of requests
\* handled, and it never exceeds the number accepted
C20_CountsRequests ==
    /\ CounterTotal <= accepted
    /\ (\A c \in Conns : ~InFlight(c)) => CounterTotal = accepted

\* C20: http_requests_total is monotonic: every update a handler makes is
\* an Add of exactly +1, so in any interleaving the aggregate count never
\* decreases, and after all started requests have completed it equals the
\* number of requests handled.
C20_CounterMonotonic ==
    /\ [][C20_AddsOne]_vars
    /\ []C20_CountsRequests

\* two requests handled on two connections, one of them a failed /work,
\* and the counter at 2
C20_Witness ==
    /\ \A c \in Conns : Done(c)
    /\ \E c \in Conns : request[c].endpoint = "/work" /\ locals[c].status = "500"
    /\ \E c \in Conns : request[c].endpoint = "/metrics"
    /\ CounterTotal = 2
    /\ accepted = 2

\* the value of the float attribute k of the metrics span of connection c
MetricsAttr(c, k) ==
    (CHOOSE a \in spans[c]["metrics"].attrs : a.key = k).f

\* C21: in metricsHandler the cpu_usage and memory_usage printed in the
\* body are the two-decimal renderings of the very same two draws that are
\* attached to the metrics span as system.cpu.usage and
\* system.memory.usage, and the counter is always tagged status=200.
C21_BodyMatchesSpan ==
    \A c \in Conns :
        /\ request[c].endpoint = "/metrics" =>
              \A i \in 1..Len(emitted[c].adds) : emitted[c].adds[i].status = "200"
        /\ Handled(c, "/metrics") =>
              /\ HasKey(c, "metrics", "system.cpu.usage")
              /\ HasKey(c, "metrics", "system.memory.usage")
              /\ MetricsAttr(c, "system.cpu.usage") = CpuUsage(draws[c].cpu)
              /\ MetricsAttr(c, "system.memory.usage") = MemoryUsage(draws[c].mem)
              /\ resp[c].body = MetricsBody(MetricsAttr(c, "system.cpu.usage"),
                                            MetricsAttr(c, "system.memory.usage"))
              /\ Len(emitted[c].adds) = 1

\* a /metrics request whose draws were the middle of the cpu range and the
\* top of the memory range has completed with both on its span
C21_Witness ==
    \E c \in Conns :
        /\ Handled(c, "/metrics")
        /\ draws[c].cpu = FloatDen \div 2
        /\ draws[c].mem = FloatDen - 1
        /\ HasAttr(c, "metrics", AttrFloat64("system.cpu.usage", Float(50, 0)))
        /\ emitted[c].adds[1].status = "200"

\* the statements of main that come before the port is read
BeforePort ==
    {"main_Start", "it_Resource", "it_TraceExporter", "it_TracerProvider",
     "it_MetricExporter", "it_MeterProvider", "it_Tracer", "it_Counter",
     "it_Histogram", "main_FatalInit", "main_Register", "main_Port"}

\* the port is unread until main reads it, and from then on it is PORT, or
\* 8080 when PORT is empty
C22_PortFromEnv ==
    /\ proc.pc \in BeforePort => proc.port = ""
    /\ proc.pc \in {"main_Listen", "serving", "main_FatalServe"} =>
          /\ proc.env = "" => proc.port = "8080"
          /\ proc.env # "" => proc.port = proc.env
    /\ accepted > 0 => proc.port # ""

\* the port is written by one statement only, after initTelemetry returned
\* nil and the handlers were registered, and listening is what follows
C22_PortChosenOnce ==
    proc'.port # proc.port =>
        /\ proc.pc = "main_Port" /\ proc'.pc = "main_Listen"
        /\ proc.port = ""
        /\ \A h \in HandleNames : handles[h] # "nil"
        /\ proc.registered = Endpoints
        /\ accepted = 0

\* C22: the server listens on the port given by the PORT environment
\* variable, and on port 8080 when PORT is unset or empty; the port is
\* chosen once, after telemetry initialisation and handler registration,
\* and before listening starts.
C22_ListenPort ==
    /\ []C22_PortFromEnv
    /\ [][C22_PortChosenOnce]_vars

\* a process started with PORT=9090 has served a request on port 9090
C22_Witness ==
    /\ proc.pc = "serving"
    /\ proc.env = "9090"
    /\ proc.port = "9090"
    /\ \E c \in Conns : Done(c)

\* x is an element of the sequence s
InSeq(x, s) == \E i \in 1..Len(s) : s[i] = x

\* deploy.sh found the secret, offered to update it, and the user answered
\* something other than y or Y
Declined ==
    /\ script.name = "deploy.sh"
    /\ InSeq(UpdatePrompt, script.prompts)
    /\ script.reply \notin {"y", "Y"}
    /\ script.err # "read failed"

\* C23: deploy.sh offers to reuse an existing secret: when the secret
\* exists and the user answers anything other than y/Y, the script neither
\* deletes nor recreates the secret, does not prompt for a key, and still
\* goes on to apply both manifests.
C23_ReuseSecret ==
    Declined =>
        /\ cluster.initial # "absent"
        /\ cluster.secret = cluster.initial
        /\ ~InSeq("kubectl delete secret", script.cmds)
        /\ ~InSeq("kubectl create secret", script.cmds)
        /\ ~InSeq(KeyPrompt, script.prompts)
        /\ script.pc \in {"if_create", "apply_manifests", "apply_loadgen", "wait",
                          "exited"}
        /\ script.pc \in {"apply_loadgen", "wait", "exited"} =>
              InSeq("kubectl apply -f k8s-manifests.yaml", script.cmds)
        /\ "k8s-manifests.yaml" \in cluster.applied /\ script.pc \in {"wait", "exited"} =>
              InSeq("kubectl apply -f load-generator.yaml", script.cmds)
        /\ script.pc = "exited" /\ script.exit = 0 =>
              cluster.applied = {"k8s-manifests.yaml", "load-generator.yaml"}

\* the user answered n, and deploy.sh finished with both manifests applied
\* and the old secret in place
C23_Witness ==
    /\ Declined
    /\ script.reply = "n"
    /\ script.pc = "exited" /\ script.exit = 0
    /\ cluster.secret = "old-key"
    /\ cluster.applied = {"k8s-manifests.yaml", "load-generator.yaml"}

\* the handles a handler uses
UsedHandles == {"tracer", "requestCounter", "requestDuration"}

\* whenever a handler has been entered, and whenever one is registered, the
\* handles are set
C24_HandlesSetInHandlers ==
    /\ \A c \in Conns :
          pc[c] # "idle" => \A h \in UsedHandles : handles[h] # "nil"
    /\ proc.registered # {} => \A h \in UsedHandles : handles[h] # "nil"
    /\ proc.pc \in {"main_Listen", "serving"} =>
          \A h \in UsedHandles : handles[h] # "nil"

\* handlers are registered by one statement, reached from the end of
\* initTelemetry only, and a handler is entered only while the process serves
C24_RegisteredAfterInit ==
    /\ proc'.registered # proc.registered =>
          /\ proc.pc = "main_Register"
          /\ proc.err = ""
          /\ \A h \in UsedHandles : handles[h] # "nil"
    /\ proc'.pc = "main_Register" /\ proc.pc # "main_Register" =>
          proc.pc = "it_Histogram" /\ proc'.err = ""
    /\ \A c \in Conns :
          pc[c] = "idle" /\ pc'[c] # "idle" => proc.pc = "serving"

\* C24: in the production process no handler ever runs with an unset
\* telemetry handle: handlers are registered and the listener started only
\* after initTelemetry has returned nil, so whenever a handler executes,
\* tracer, requestCounter and requestDuration are all initialised.
C24_NoUnsetHandle ==
    /\ []C24_HandlesSetInHandlers
    /\ [][C24_RegisteredAfterInit]_vars

\* a /work handler is about to increment the counter in a process that
\* went through main
C24_Witness ==
    \E c \in Conns :
        /\ pc[c] = "work_Add"
        /\ proc.pc = "serving"
        /\ proc.port # ""
        /\ handles.requestCounter = "set"

\* C25: initTelemetry is all-or-nothing: whenever it returns an error, none
\* of the global telemetry state has been changed: the global tracer
\* provider, propagator and meter provider are not installed and tracer,
\* meter, requestCounter and requestDuration are still unassigned.
C25_AllOrNothing ==
    proc.err \in InitErrors =>
        /\ proc.globals = {}
        /\ \A h \in HandleNames : handles[h] = "nil"

\* what initTelemetry has installed when it returns each of its errors, and
\* that no handler has run on it
C25_InstalledBeforeError ==
    proc.err \in InitErrors =>
        /\ proc.err \in {"failed to create resource", "failed to create trace exporter"} =>
              /\ proc.globals = {}
              /\ \A h \in HandleNames : handles[h] = "nil"
        /\ proc.err = "failed to create metric exporter" =>
              /\ proc.globals = {"TracerProvider", "TextMapPropagator"}
              /\ \A h \in HandleNames : handles[h] = "nil"
        /\ proc.err = "failed to create counter" =>
              /\ proc.globals = OtelGlobals
              /\ handles.tracer = "set" /\ handles.meter = "set"
              /\ handles.requestDuration = "nil"
        /\ proc.err = "failed to create histogram" =>
              /\ proc.globals = OtelGlobals
              /\ handles.tracer = "set" /\ handles.meter = "set"
              /\ handles.requestCounter = "set"
        /\ \A c \in Conns : pc[c] = "idle"
        /\ proc.registered = {}

\* the process has exited on a metric exporter error with the tracer
\* provider and the propagator installed
C25_Witness ==
    /\ proc.pc = "exited"
    /\ proc.err = "failed to create metric exporter"
    /\ proc.globals = {"TracerProvider", "TextMapPropagator"}
    /\ handles.tracer = "nil"

\* the header is written at most once and before any body, the body at
\* most once, and a finished request has both; a finished /metrics
\* response was sent with the JSON content type
C26_HeaderThenBody ==
    \A c \in Conns :
        /\ resp[c].headerCalls \in {0, 1}
        /\ resp[c].writes \in {0, 1}
        /\ resp[c].writes = 1 => resp[c].headerCalls = 1
        /\ resp[c].headerCalls = 0 => resp[c].code = 0 /\ resp[c].body = ""
        /\ Done(c) => resp[c].headerCalls = 1 /\ resp[c].writes = 1
        /\ Handled(c, "/metrics") =>
              /\ resp[c].contentType = "application/json"
              /\ resp[c].sentContentType = "application/json"

\* a body write finds the header written by WriteHeader, and the content
\* type is set while no header has been written
C26_WriteOrder ==
    \A c \in Conns :
        /\ resp'[c].writes > resp[c].writes =>
              resp[c].headerCalls = 1 /\ resp[c].code # 0
        /\ resp'[c].contentType # resp[c].contentType /\ resp'[c].contentType # "" =>
              resp[c].headerCalls = 0 /\ resp'[c].headerCalls = 0

\* C26: each handler calls WriteHeader exactly once per request and before
\* the first body write, and it writes the body exactly once; in
\* metricsHandler the Content-Type header is set before WriteHeader, so the
\* header is part of the response that is sent.
C26_OneHeaderOneBody ==
    /\ []C26_HeaderThenBody
    /\ [][C26_WriteOrder]_vars

\* a /metrics response is complete with its JSON content type, next to a
\* /health response that is complete without one
C26_Witness ==
    \E c, d \in Conns :
        /\ Handled(c, "/metrics")
        /\ resp[c].sentContentType = "application/json"
        /\ resp[c].headerCalls = 1 /\ resp[c].writes = 1
        /\ Handled(d, "/health")
        /\ resp[d].sentContentType = ""
        /\ resp[d].headerCalls = 1 /\ resp[d].writes = 1

\* the requests in flight on endpoint e
InFlightOn(e) == {c \in Conns : InFlight(c) /\ request[c].endpoint = e}

\* counter increments minus histogram observations of endpoint e
Unobserved(e) == requestCounter[e] - requestDuration[e]

\* C27: within each request the counter increment precedes the histogram
\* observation, so under any interleaving, for each endpoint the number of
\* counter increments minus the number of histogram observations is
\* between 0 and the number of requests in flight on that endpoint, and is
\* 0 when no request is in flight.
C27_AddBeforeRecord ==
    /\ \A c \in Conns : Len(emitted[c].records) <= Len(emitted[c].adds)
    /\ \A e \in Endpoints :
          /\ Unobserved(e) >= 0
          /\ Unobserved(e) <= Cardinality(InFlightOn(e))
          /\ InFlightOn(e) = {} => Unobserved(e) = 0

\* two /health requests are in flight, both counted and neither observed
C27_Witness ==
    /\ Cardinality(InFlightOn("/health")) = 2
    /\ Unobserved("/health") = 2
    /\ \A c \in Conns : Len(emitted[c].adds) = 1 /\ emitted[c].records = <<>>

\* the user was asked for the key and entered nothing
EmptyKeyEntered ==
    /\ InSeq(KeyPrompt, script.prompts)
    /\ script.key = ""
    /\ script.err # "read failed"

\* after an empty key the script is at the check or has exited with 1, it
\* has run neither kubectl create secret nor kubectl apply, and no secret
\* ever holds an empty key
C28_NothingAfterEmptyKey ==
    /\ cluster.secret # ""
    /\ EmptyKeyEntered =>
          /\ script.pc \in {"check_key", "exited"}
          /\ script.pc = "exited" => script.exit = 1 /\ script.err = KeyRequired
          /\ ~InSeq("kubectl create secret", script.cmds)
          /\ ~InSeq("kubectl apply -f k8s-manifests.yaml", script.cmds)
          /\ ~InSeq("kubectl apply -f load-generator.yaml", script.cmds)
          /\ cluster.applied = {}
    /\ script.err = KeyRequired => EmptyKeyEntered /\ script.exit = 1

\* the step after an empty key is the exit with status 1
C28_ExitIsNext ==
    EmptyKeyEntered /\ script.pc = "check_key" /\ script' # script =>
        /\ script'.pc = "exited" /\ script'.exit = 1
        /\ cluster' = cluster

\* C28: in deploy.sh (without -N) and in create-secret.sh, entering an
\* empty API key makes the script exit with status 1 before any kubectl
\* create secret or kubectl apply runs: no secret is created from an empty
\* key and no manifest is ever applied after the empty-key error.
C28_EmptyKeyIsFatal ==
    /\ []C28_NothingAfterEmptyKey
    /\ [][C28_ExitIsNext]_vars

\* deploy.sh, run without -N against a cluster without the secret, has
\* exited with 1 on an empty key
C28_Witness ==
    /\ script.name = "deploy.sh"
    /\ ~script.skip
    /\ cluster.initial = "absent"
    /\ EmptyKeyEntered
    /\ script.pc = "exited" /\ script.exit = 1
    /\ script.err = KeyRequired

\* C29: a failed secret update leaves the cluster's secret unchanged: in
\* deploy.sh (user chose to update) and in create-secret.sh, if the script
\* exits with an error because the entered API key is empty, a
\* datadog-api-key secret that existed before the script ran still exists
\* afterwards.
C29_SecretSurvivesFailedUpdate ==
    /\ script.pc = "exited"
    /\ script.err = KeyRequired
    /\ cluster.initial # "absent"
    => cluster.secret = cluster.initial

====
